---- MODULE Spec2Model ----
(***************************************************************************)
(* A model of kubiyabot/workflow-examples: the Slack message models        *)
(* (models/messages.py over message_blocks/blocks.py), the command models  *)
(* that render shell scripts (models/models.py), the incident-response     *)
(* workflow declared in workflows/incident_response.py, and the uploader   *)
(* script input_files/investigation_results.py.                            *)
(*                                                                         *)
(* The four parts have separate specifications (SpecMsg, SpecCmd, SpecWf / *)
(* SpecWfFair, SpecUp) over one set of variables; each specification       *)
(* leaves the other parts' variables at their initial values.              *)
(***************************************************************************)
EXTENDS Integers, Sequences, FiniteSets, TLC

VARIABLES
    \* message part
    mm,        \* the message model instance under construction / rendering
    msg,       \* outcome of mm.to_message(): not called, raised, or a Message
    payload,   \* outcome of Message.to_dict() / to_json()
    ablock,    \* an ActionsBlock built directly by a caller
    \* command part
    cm,        \* the command / prompt model instance
    constructed, \* the instance as its constructor left it
    rendered,  \* what get_command() / get_prompt() returned
    outcome,   \* how a run of the rendered validate-incident script ended
    \* workflow part
    status,    \* per step of the incident-response workflow: where it stands
    attempts,  \* per step: retries used by its current or failed execution
    \* uploader part (input_files/investigation_results.py)
    env,       \* the environment the script is launched with
    pc,        \* where main() stands
    read,      \* the names main() has passed to os.getenv
    local,     \* main()'s local variables
    last,      \* the latest call of an HTTP helper: response and result
    calls,     \* how many calls of the HTTP helpers main() has made
    posts,     \* how many HTTP requests have been sent
    sent,      \* the Slack methods requested, in order
    \* a run of the incident-response workflow's shell steps
    params,    \* the parameter values the run was submitted with
    run,       \* per shell step: how its script ended, what it did
    \* a Slack-posting command model and a run of its script
    sm,        \* the instance
    sh,        \* what the run of its script did
    \* a run of one of the declared workflows
    wname,     \* the workflow submitted
    phase,     \* per step: waiting, running, done
    \* a step of workflows.py whose script a command model renders when the
    \* workflow is built
    bstep,     \* the step and its script, as built
    bvals,     \* the values of the run: parameters and outputs of earlier steps
    bout,      \* what the run of the script did
    \* a LogAnalysisReport and the files it describes
    lar,       \* the instance
    files      \* what get_files() returned

msgVars == <<mm, msg, payload, ablock>>
cmdVars == <<cm, constructed, rendered, outcome>>

wfVars == <<status, attempts>>
upVars == <<env, pc, read, local, last, calls, posts, sent>>

runVars == <<params, run>>
slackVars == <<sm, sh>>
declVars == <<wname, phase>>
builtVars == <<bstep, bvals, bout>>
larVars == <<lar, files>>

vars ==
    <<msgVars, cmdVars, wfVars, upVars, runVars, slackVars, declVars, builtVars,
      larVars>>
notMsg ==
    <<cmdVars, wfVars, upVars, runVars, slackVars, declVars, builtVars,
      larVars>>
notCmd ==
    <<msgVars, wfVars, upVars, runVars, slackVars, declVars, builtVars,
      larVars>>
notWf ==
    <<msgVars, cmdVars, upVars, runVars, slackVars, declVars, builtVars,
      larVars>>
notUp ==
    <<msgVars, cmdVars, wfVars, runVars, slackVars, declVars, builtVars,
      larVars>>
notRun ==
    <<msgVars, cmdVars, wfVars, upVars, slackVars, declVars, builtVars,
      larVars>>
notSlack ==
    <<msgVars, cmdVars, wfVars, upVars, runVars, declVars, builtVars,
      larVars>>
notDecl ==
    <<msgVars, cmdVars, wfVars, upVars, runVars, slackVars, builtVars,
      larVars>>
notBuilt ==
    <<msgVars, cmdVars, wfVars, upVars, runVars, slackVars, declVars,
      larVars>>
notLar ==
    <<msgVars, cmdVars, wfVars, upVars, runVars, slackVars, declVars,
      builtVars>>

-----------------------------------------------------------------------------
(* Bounds of the model. *)

\* largest value drawn for an integer count field (tools_count, total_services, ...)
MaxCount == 2
\* largest number of entries drawn for services_status
MaxServices == 3
\* how far beyond the documented maximum a caller-built ActionsBlock may go
MaxExtraElements == 1

-----------------------------------------------------------------------------
(* Python values: Optional fields, results of a call that may raise. *)

None == [none |-> TRUE]
Some(x) == [none |-> FALSE, val |-> x]

Ok(v) == [raised |-> FALSE, val |-> v]
Raise(e) == [raised |-> TRUE, err |-> e]

NotCalled == [kind |-> "not_called"]
Returned(v) == [kind |-> "returned", val |-> v]
Raised(e) == [kind |-> "raised", err |-> e]

\* getattr on an Enum class: a missing member raises AttributeError
Attr(enum, name) ==
    IF name \in DOMAIN enum THEN Ok(enum[name]) ELSE Raise("AttributeError")

-----------------------------------------------------------------------------
(* message_blocks/blocks.py *)

\* An Enum class is the function from its member names to their values.
BlockType ==
    ("HEADER" :> "header") @@ ("SECTION" :> "section") @@ ("DIVIDER" :> "divider")
    @@ ("ACTIONS" :> "actions") @@ ("CONTEXT" :> "context")

ButtonStyle == ("PRIMARY" :> "primary") @@ ("DANGER" :> "danger")

PlainTextObject(text, emoji) ==
    [type |-> Some("plain_text"), text |-> Some(text), emoji |-> emoji]

MarkdownTextObject(text) ==
    [type |-> Some("mrkdwn"), text |-> Some(text), verbatim |-> None]

ButtonElement(text, url, style) ==
    [type |-> Some("button"), text |-> Some(text), action_id |-> None,
     url |-> url, value |-> None, style |-> style, confirm |-> None,
     accessibility_label |-> None]

HeaderBlock(text) ==
    [type |-> Some(BlockType["HEADER"]), text |-> Some(text), block_id |-> None]

SectionBlock(text, fields) ==
    [type |-> Some(BlockType["SECTION"]), text |-> text, fields |-> fields,
     accessory |-> None, block_id |-> None]

DividerBlock ==
    [type |-> Some(BlockType["DIVIDER"]), block_id |-> None]

\* The constructor validates the element type only: List[ButtonElement] carries
\* no length constraint.
ActionsBlock(elements) ==
    [type |-> Some(BlockType["ACTIONS"]), elements |-> Some(elements), block_id |-> None]

ContextBlock(elements) ==
    [type |-> Some(BlockType["CONTEXT"]), elements |-> Some(elements), block_id |-> None]

Message(channel, text, blocks) ==
    [channel |-> Some(channel), text |-> Some(text), attachments |-> None,
     blocks |-> Some(blocks), thread_ts |-> None, mrkdwn |-> None,
     username |-> None, icon_emoji |-> None, icon_url |-> None, parse |-> None,
     link_names |-> None, unfurl_links |-> None, unfurl_media |-> None]

\* Section helpers for the two shapes the message models use.
TextSection(tag) == SectionBlock(Some(MarkdownTextObject(tag)), None)
FieldsSection(tags) ==
    SectionBlock(None, Some([i \in DOMAIN tags |-> MarkdownTextObject(tags[i])]))
Context(tag) == ContextBlock(<<MarkdownTextObject(tag)>>)

\* A list of buttons whose styles are looked up on ButtonStyle by member name;
\* the first missing member raises.
Buttons(labels, styleNames) ==
    LET rs == [i \in DOMAIN styleNames |-> Attr(ButtonStyle, styleNames[i])]
    IN  IF \E i \in DOMAIN rs : rs[i].raised
        THEN Raise("AttributeError")
        ELSE Ok([i \in DOMAIN rs |->
                   ButtonElement(PlainTextObject(labels[i], Some(TRUE)), None,
                                 Some(rs[i].val))])

\* pydantic model_dump: the keys kept at one level
Keep(o, exclude_none) ==
    IF exclude_none THEN {k \in DOMAIN o : ~o[k].none} ELSE DOMAIN o

DumpText(o, ex) == [k \in Keep(o, ex) |-> o[k]]

DumpButton(o, ex) ==
    [k \in Keep(o, ex) |->
        IF k = "text" THEN Some(DumpText(o[k].val, ex)) ELSE o[k]]

DumpBlock(o, ex) ==
    [k \in Keep(o, ex) |->
        IF o[k].none THEN o[k]
        ELSE CASE k = "text" -> Some(DumpText(o[k].val, ex))
               [] k = "fields" ->
                    Some([i \in DOMAIN o[k].val |-> DumpText(o[k].val[i], ex)])
               [] k = "elements" ->
                    Some([i \in DOMAIN o[k].val |->
                            IF o.type.val = BlockType["ACTIONS"]
                            THEN DumpButton(o[k].val[i], ex)
                            ELSE DumpText(o[k].val[i], ex)])
               [] OTHER -> o[k]]

model_dump(m, exclude_none) ==
    [k \in Keep(m, exclude_none) |->
        IF k = "blocks" /\ ~m[k].none
        THEN Some([i \in DOMAIN m[k].val |-> DumpBlock(m[k].val[i], exclude_none)])
        ELSE m[k]]

\* a serialisation that keeps the None fields (what model_dump() does by default)
to_dict_keeping_none(m) == model_dump(m, FALSE)

\* Message.to_dict and Message.to_json: both dump with exclude_none=True
to_dict(m) == model_dump(m, TRUE)

to_json(m) == model_dump(m, TRUE)

-----------------------------------------------------------------------------
(* models/messages.py: the message models.  A str field that is only        *)
(* interpolated into a text is kept when a branch or a lookup reads it; the  *)
(* rendered texts themselves are short tags.                                 *)

SeverityStrings == {"low", "medium", "high", "critical", "UNKNOWN"}
DeploymentStatuses == {"success", "failed", "in_progress", "other"}
HealthStatuses == {"healthy", "degraded", "unhealthy", "other"}
BackupStatuses == {"success", "failed", "in_progress", "warning", "other"}
ImpactLevels == {"low", "medium", "high", "other"}
OptionalText == {"", "text"}

NoModel == [cls |-> "none"]

ValidationFailureMessages ==
    [cls : {"ValidationFailureMessage"}, tools_count : 0..MaxCount]
PostIncidentAlertMessages ==
    [cls : {"PostIncidentAlertMessage"}, incident_severity : SeverityStrings]
InvestigationProgressMessages ==
    [cls : {"InvestigationProgressMessage"}, incident_severity : SeverityStrings]
InvestigationResultsMessages ==
    [cls : {"InvestigationResultsMessage"}, incident_severity : SeverityStrings]
DeploymentNotificationMessages ==
    [cls : {"DeploymentNotificationMessage"},
     deployment_status : DeploymentStatuses, rollback_available : BOOLEAN]
MaintenanceWindowMessages ==
    [cls : {"MaintenanceWindowMessage"}, impact_level : ImpactLevels,
     maintenance_type : {"planned", "emergency"}, preparation_notes : OptionalText]
SecurityAlertMessages ==
    [cls : {"SecurityAlertMessage"}, threat_level : SeverityStrings,
     alert_type : {"vulnerability", "breach", "suspicious_activity", "other"}]
HealthCheckStatusMessages ==
    [cls : {"HealthCheckStatusMessage"}, overall_status : HealthStatuses,
     services_status : UNION {[1..n -> {"healthy"}] : n \in 0..MaxServices},
     total_services : 0..MaxCount, healthy_services : 0..MaxCount]
BackupStatusMessages ==
    [cls : {"BackupStatusMessage"}, backup_status : BackupStatuses,
     duration_minutes : 0..MaxCount, error_message : OptionalText]
EscalationNotificationMessages ==
    [cls : {"EscalationNotificationMessage"}, new_severity : SeverityStrings,
     sla_breach_risk : BOOLEAN, estimated_resolution_time : OptionalText,
     on_call_contact : OptionalText]

MessageModels ==
    ValidationFailureMessages \cup PostIncidentAlertMessages
    \cup InvestigationProgressMessages \cup InvestigationResultsMessages
    \cup DeploymentNotificationMessages \cup MaintenanceWindowMessages
    \cup SecurityAlertMessages \cup HealthCheckStatusMessages
    \cup BackupStatusMessages \cup EscalationNotificationMessages

Header(tag) == HeaderBlock(PlainTextObject(tag, Some(TRUE)))

ValidationFailureMessage_to_message(self) ==
    Ok(Message("channel", "validation agent created",
        <<Header("validation agent created"),
          FieldsSection(<<"incident", "id", "severity", "agent">>),
          TextSection("available tools"),
          TextSection("guidance")>>))

PostIncidentAlertMessage_to_message(self) ==
    LET b == Buttons(<<"View on Datadog">>, <<"PRIMARY">>)
    IN  IF b.raised THEN b
        ELSE Ok(Message("channel", "incident",
                <<Header("received incident"),
                  TextSection("title"),
                  FieldsSection(<<"id", "severity", "priority", "services">>),
                  DividerBlock,
                  TextSection("body"),
                  DividerBlock,
                  ActionsBlock([i \in DOMAIN b.val |->
                                  [b.val[i] EXCEPT !.url = Some("incident_url")]]),
                  Context("investigation will begin")>>))

InvestigationProgressMessage_to_message(self) ==
    Ok(Message("channel", "investigation started",
        <<TextSection("investigation started"),
          Context("id severity services"),
          DividerBlock,
          FieldsSection(<<"na agent", "eu agent">>),
          Context("eta")>>))

InvestigationResultsMessage_to_message(self) ==
    Ok(Message("channel", "investigation complete",
        <<Header("investigation complete"),
          FieldsSection(<<"incident", "severity", "services", "title">>),
          DividerBlock,
          TextSection("summary"),
          DividerBlock,
          TextSection("reports"),
          Context("completed at")>>))

DeploymentNotificationMessage_to_message(self) ==
    LET blocks == <<Header("deployment"),
                    FieldsSection(<<"service", "version", "environment", "deployed by">>),
                    TextSection("commit")>>
        rollback == self.deployment_status = "failed" /\ self.rollback_available
        b == Buttons(<<"Rollback", "View Logs">>, <<"DANGER", "PRIMARY">>)
    IN  IF rollback /\ b.raised THEN b
        ELSE Ok(Message("channel", "deployment",
                blocks \o (IF rollback THEN <<ActionsBlock(b.val)>> ELSE <<>>)))

MaintenanceWindowMessage_to_message(self) ==
    Ok(Message("channel", "maintenance",
        <<Header("maintenance"),
          TextSection("title"),
          FieldsSection(<<"start", "end", "impact", "contact">>),
          DividerBlock,
          TextSection("affected services")>>
        \o (IF self.preparation_notes # ""
            THEN <<DividerBlock, TextSection("preparation notes")>> ELSE <<>>)
        \o <<Context("urgent issues")>>))

SecurityAlertMessage_to_message(self) ==
    LET b == Buttons(<<"View Details", "Incident Response">>, <<"DANGER", "PRIMARY">>)
    IN  IF b.raised THEN b
        ELSE Ok(Message("channel", "security alert",
                <<Header("security alert"),
                  TextSection("title"),
                  FieldsSection(<<"threat level", "type", "incident id", "reported by">>),
                  DividerBlock,
                  TextSection("affected systems"),
                  DividerBlock,
                  TextSection("recommended actions"),
                  ActionsBlock(b.val),
                  Context("reported at")>>))

Min(a, b) == IF a < b THEN a ELSE b

HealthCheckStatusMessage_to_message(self) ==
    LET service_fields ==
            [i \in DOMAIN self.services_status |-> MarkdownTextObject("service")]
        n == Len(service_fields)
        \* for i in range(0, n, 2): SectionBlock(fields=service_fields[i:i+2])
        chunks == [j \in 1..((n + 1) \div 2) |->
                     SectionBlock(None,
                        Some(SubSeq(service_fields, 2 * j - 1, Min(2 * j, n))))]
        unhealthy == self.overall_status # "healthy"
        b == Buttons(<<"Run Diagnostics", "View Metrics">>, <<"PRIMARY", "DEFAULT">>)
    IN  IF self.total_services = 0
        THEN Raise("ZeroDivisionError")   \* healthy_services/total_services
        ELSE IF unhealthy /\ b.raised THEN b
        ELSE Ok(Message("channel", "health check",
                <<Header("health check"),
                  FieldsSection(<<"overall", "services", "last check", "availability">>),
                  DividerBlock>>
                \o chunks
                \o (IF unhealthy THEN <<DividerBlock, ActionsBlock(b.val)>> ELSE <<>>)
                \o <<Context("every 5 minutes")>>))

BackupStatusMessage_to_message(self) ==
    LET bs == Buttons(<<"Restore", "View History">>, <<"PRIMARY", "DEFAULT">>)
        bf == Buttons(<<"Retry Backup", "View Logs">>, <<"DANGER", "DEFAULT">>)
        st == self.backup_status
    IN  IF st = "success" /\ bs.raised THEN bs
        ELSE IF st = "failed" /\ bf.raised THEN bf
        ELSE Ok(Message("channel", "backup",
                <<Header("backup"),
                  TextSection("name"),
                  FieldsSection(<<"status", "start", "storage", "retention">>)>>
                \o (IF st # "in_progress"
                    THEN <<FieldsSection(<<"duration", "size", "end", "next">>)>>
                    ELSE <<>>)
                \o (IF self.error_message # ""
                    THEN <<DividerBlock, TextSection("error details")>> ELSE <<>>)
                \o (IF st = "success" THEN <<DividerBlock, ActionsBlock(bs.val)>>
                    ELSE IF st = "failed" THEN <<DividerBlock, ActionsBlock(bf.val)>>
                    ELSE <<>>)
                \o <<Context("regular backups")>>))

EscalationNotificationMessage_to_message(self) ==
    LET additional_fields ==
            (IF self.estimated_resolution_time # "" THEN <<"est resolution">> ELSE <<>>)
            \o (IF self.on_call_contact # "" THEN <<"on-call contact">> ELSE <<>>)
        b == Buttons(<<"Contact Team", "View Details", "Escalation History">>,
                     <<"DANGER", "PRIMARY", "DEFAULT">>)
    IN  IF b.raised THEN b
        ELSE Ok(Message("channel", "escalated",
                <<Header("incident escalated"),
                  TextSection("title"),
                  FieldsSection(<<"incident id", "escalated by", "escalated to", "time">>),
                  DividerBlock,
                  TextSection("escalation changes"),
                  FieldsSection(<<"severity", "priority">>),
                  DividerBlock,
                  TextSection("escalation reason")>>
                \o (IF self.sla_breach_risk
                    THEN <<DividerBlock, TextSection("sla breach risk")>> ELSE <<>>)
                \o (IF additional_fields # <<>>
                    THEN <<DividerBlock, FieldsSection(additional_fields)>> ELSE <<>>)
                \o <<DividerBlock, ActionsBlock(b.val), Context("immediate attention")>>))

to_message(self) ==
    CASE self.cls = "ValidationFailureMessage" -> ValidationFailureMessage_to_message(self)
      [] self.cls = "PostIncidentAlertMessage" -> PostIncidentAlertMessage_to_message(self)
      [] self.cls = "InvestigationProgressMessage" ->
            InvestigationProgressMessage_to_message(self)
      [] self.cls = "InvestigationResultsMessage" ->
            InvestigationResultsMessage_to_message(self)
      [] self.cls = "DeploymentNotificationMessage" ->
            DeploymentNotificationMessage_to_message(self)
      [] self.cls = "MaintenanceWindowMessage" -> MaintenanceWindowMessage_to_message(self)
      [] self.cls = "SecurityAlertMessage" -> SecurityAlertMessage_to_message(self)
      [] self.cls = "HealthCheckStatusMessage" -> HealthCheckStatusMessage_to_message(self)
      [] self.cls = "BackupStatusMessage" -> BackupStatusMessage_to_message(self)
      [] self.cls = "EscalationNotificationMessage" ->
            EscalationNotificationMessage_to_message(self)

-----------------------------------------------------------------------------
(* The message part as a state machine: construct a model, render it, dump  *)
(* the Message; or build an ActionsBlock directly.                           *)

\* "Maximum 25 elements per block" (ActionsBlock's documentation)
MaxActionsElements == 25

IdleMsg ==
    /\ mm = NoModel
    /\ msg = NotCalled
    /\ payload = NotCalled
    /\ ablock = NotCalled

IdleCmd ==
    /\ cm = NoModel
    /\ constructed = NoModel
    /\ rendered = NotCalled
    /\ outcome = NotCalled

Construct ==
    /\ mm = NoModel
    /\ ablock = NotCalled
    /\ mm' \in MessageModels
    /\ UNCHANGED <<msg, payload, ablock>>
    /\ UNCHANGED notMsg

ToMessage ==
    /\ mm # NoModel
    /\ msg = NotCalled
    /\ LET r == to_message(mm)
       IN  msg' = IF r.raised THEN Raised(r.err) ELSE Returned(r.val)
    /\ UNCHANGED <<mm, payload, ablock>>
    /\ UNCHANGED notMsg

ToDict ==
    /\ msg.kind = "returned"
    /\ payload = NotCalled
    /\ payload' = [kind |-> "dict", val |-> to_dict(msg.val)]
    /\ UNCHANGED <<mm, msg, ablock>>
    /\ UNCHANGED notMsg

ToJson ==
    /\ msg.kind = "returned"
    /\ payload = NotCalled
    /\ payload' = [kind |-> "json", val |-> to_json(msg.val)]
    /\ UNCHANGED <<mm, msg, ablock>>
    /\ UNCHANGED notMsg

NewActionsBlock ==
    /\ mm = NoModel
    /\ ablock = NotCalled
    /\ \E n \in 0..(MaxActionsElements + MaxExtraElements) :
         ablock' = Returned(ActionsBlock(
                      [i \in 1..n |->
                         ButtonElement(PlainTextObject("button", None), None, None)]))
    /\ UNCHANGED <<mm, msg, payload>>
    /\ UNCHANGED notMsg

NextMsg == Construct \/ ToMessage \/ ToDict \/ ToJson \/ NewActionsBlock


-----------------------------------------------------------------------------
(* Claims about the message part (checked under SpecMsg). *)

\* The Block Kit schema of the claim, stated on a dumped payload.
SlackBlockTypes == {"header", "section", "divider", "actions", "context"}

NoNullKey(d) == \A k \in DOMAIN d : ~d[k].none

TextValid(t) == NoNullKey(t)

ButtonValid(b) == NoNullKey(b) /\ TextValid(b.text.val)

BlockValid(b) ==
    /\ NoNullKey(b)
    /\ "type" \in DOMAIN b
    /\ b.type.val \in SlackBlockTypes
    /\ b.type.val = "section" => ("text" \in DOMAIN b \/ "fields" \in DOMAIN b)
    /\ ("text" \in DOMAIN b) => TextValid(b.text.val)
    /\ ("fields" \in DOMAIN b) =>
            \A i \in DOMAIN b.fields.val : TextValid(b.fields.val[i])
    /\ ("elements" \in DOMAIN b) =>
            \A i \in DOMAIN b.elements.val :
                IF b.type.val = "actions" THEN ButtonValid(b.elements.val[i])
                ELSE TextValid(b.elements.val[i])

SlackValid(p) ==
    /\ "channel" \in DOMAIN p
    /\ "text" \in DOMAIN p
    /\ NoNullKey(p)
    /\ ("blocks" \in DOMAIN p) =>
            \A i \in DOMAIN p.blocks.val : BlockValid(p.blocks.val[i])

\* C1: for every message model and every assignment of its fields, to_message()
\* returns a Message without raising.
C1_ToMessageNeverRaises == msg.kind # "raised"

\* C2: every payload that to_dict() or to_json() produces for a message built by
\* a message model validates against the Block Kit schema: channel and text are
\* present, no key is null, every block has one of the five types, and every
\* section block has text or fields.
C2_PayloadValid == payload.kind \in {"dict", "json"} => SlackValid(payload.val)

\* C2 witness: a dumped payload that holds a section with fields only and an
\* actions block with styled buttons.
C2_Witness ==
    /\ payload.kind = "dict"
    /\ \E i \in DOMAIN payload.val.blocks.val :
         LET b == payload.val.blocks.val[i]
         IN  b.type.val = "section" /\ "text" \notin DOMAIN b
    /\ \E i \in DOMAIN payload.val.blocks.val :
         LET b == payload.val.blocks.val[i]
         IN  b.type.val = "actions" /\ Len(b.elements.val) = 2

\* C9: an ActionsBlock holds at most 25 elements.
C9_ActionsBlockAtMost25 ==
    ablock.kind = "returned" => Len(ablock.val.elements.val) <= MaxActionsElements

-----------------------------------------------------------------------------
(* models/models.py: the command models.  A str value is the sequence of its *)
(* pieces: words, and the double-quote character DQ.  get_command()           *)
(* interpolates the fields into its template without escaping, so a rendered  *)
(* script is the sequence of the template's tokens with the field values      *)
(* spliced in.                                                                *)

\* longest str value drawn for a field
MaxLen == 2

DQ == "\""
SQ == "'"
NL == "\n"
HASH == "#"
HEREDOC == "<<'EOF'"
EOFLINE == "EOF"

RECURSIVE SeqsUpTo(_, _)
SeqsUpTo(S, n) ==
    IF n = 0 THEN {<<>>}
    ELSE LET shorter == SeqsUpTo(S, n - 1)
         IN  shorter \cup {Append(q, x) : q \in shorter, x \in S}

\* free-text fields (ids, titles, names)
TextValues == SeqsUpTo({"x", DQ}, MaxLen)
\* incident_severity: a valid level, the workflow's default "UNKNOWN", quotes
SeverityValues == SeqsUpTo({"high", "UNKNOWN", DQ}, MaxLen)

ValidSeverities == {<<"critical">>, <<"high">>, <<"medium">>, <<"low">>}

\* "..." around an interpolated value, and echo "..."
Q(v) == <<DQ>> \o v \o <<DQ>>
Echo(text) == <<"echo">> \o Q(text) \o <<NL>>

ValidateIncidents ==
    [cls : {"ValidateIncident"}, incident_id : TextValues,
     incident_title : TextValues, incident_severity : SeverityValues,
     affected_services : {<<>>, <<"x">>}, incident_priority : {<<"x">>},
     incident_owner : {<<"x">>}, incident_source : {<<"x">>},
     customer_impact : {<<"x">>}]

\* if [ -z "{value}" ]; then echo ...; VALIDATION_PASSED=false; MISSING_PARAMS=...; fi
RequiredCheck(value, name) ==
    <<"if", "[", "-z">> \o Q(value) \o <<"]", ";", "then", NL>>
    \o Echo(<<"ERROR:", name, "is required">>)
    \o <<"VALIDATION_PASSED=false", NL>>
    \o <<"MISSING_PARAMS=">> \o Q(<<"${MISSING_PARAMS}", name>>) \o <<NL>>
    \o <<"fi", NL>>

ValidateIncident_get_command(self) ==
    Echo(<<"VALIDATING INCIDENT PARAMETERS">>)
    \o Echo(<<"=================================">>)
    \o <<"VALIDATION_PASSED=true", NL>>
    \o <<"MISSING_PARAMS=", DQ, DQ, NL>>
    \o RequiredCheck(self.incident_id, "incident_id")
    \o RequiredCheck(self.incident_title, "incident_title")
    \o RequiredCheck(self.incident_severity, "incident_severity")
    \o <<"if", "[", "-z">> \o Q(self.affected_services) \o <<"]", ";", "then", NL>>
    \o Echo(<<"WARNING: affected_services not provided">>)
    \o <<"fi", NL>>
    \o <<"case">> \o Q(self.incident_severity) \o <<"in", NL>>
    \o Q(<<"critical">>) \o <<"|">> \o Q(<<"high">>) \o <<"|">> \o Q(<<"medium">>)
    \o <<"|">> \o Q(<<"low">>) \o <<")", NL>>
    \o Echo(<<"Severity">> \o self.incident_severity \o <<"is valid">>)
    \o <<";;", NL, "*", ")", NL>>
    \o Echo(<<"ERROR: Invalid severity">> \o self.incident_severity
            \o <<". Must be: critical, high, medium, or low">>)
    \o <<"VALIDATION_PASSED=false", NL>>
    \o <<"MISSING_PARAMS=">> \o Q(<<"${MISSING_PARAMS}", "valid_severity">>) \o <<NL>>
    \o <<";;", NL, "esac", NL>>
    \o <<"if", "[">> \o Q(<<"$VALIDATION_PASSED">>) \o <<"=">> \o Q(<<"true">>)
    \o <<"]", ";", "then", NL>>
    \o Echo(<<"INCIDENT METADATA:">>)
    \o Echo(<<"ID:">> \o self.incident_id)
    \o Echo(<<"Title:">> \o self.incident_title)
    \o Echo(<<"Severity:">> \o self.incident_severity)
    \o Echo(<<"Priority:">> \o self.incident_priority)
    \o Echo(<<"Owner:">> \o self.incident_owner)
    \o Echo(<<"Source:">> \o self.incident_source)
    \o Echo(<<"Affected Services:", "${affected_services:-TBD via agent}">>)
    \o Echo(<<"Customer Impact:">> \o self.customer_impact)
    \o Echo(<<>>)
    \o Echo(<<"Incident validation completed successfully">>)
    \o <<"else", NL>>
    \o Echo(<<"Validation failed. Missing parameters:", "${MISSING_PARAMS}">>)
    \o Echo(<<"Continuing workflow to handle validation failure...">>)
    \o <<"fi">>

ValidationFailures == [cls : {"ValidationFailure"}, missing_params : TextValues]

ValidationFailure_get_command(self) ==
    <<NL, "if", "[">> \o Q(<<"$VALIDATION_PASSED">>) \o <<"!=">> \o Q(<<"true">>)
    \o <<"]", ";", "then", NL>>
    \o <<"echo">> \o Q(<<"VALIDATION FAILURE DETECTED">>) \o <<";", NL>>
    \o <<"echo">> \o Q(<<"Missing required parameters:">> \o self.missing_params)
    \o <<";", NL>>
    \o <<"echo">> \o Q(<<"Will create an intelligent agent">>) \o <<";", NL>>
    \o <<"else", NL>>
    \o <<"echo">> \o Q(<<"All required parameters present">>) \o <<";", NL>>
    \o <<"fi", NL>>

NormalizeChannelNameCommands ==
    [cls : {"NormalizeChannelNameCommand"}, slack_channel_id : TextValues,
     normalize_channel_name : {<<"true">>, <<"false">>, <<DQ>>}]

NormalizeChannelNameCommand_get_command(self) ==
    <<"if", "[">> \o Q(self.normalize_channel_name) \o <<"=">> \o Q(<<"true">>)
    \o <<"]", ";", "then">>
    \o <<"echo">> \o Q(self.slack_channel_id)
    \o <<"|", "sed", SQ, "s/ /_/g", SQ, "|", "tr", SQ, "[:upper:]", SQ,
         SQ, "[:lower:]", SQ, ";">>
    \o <<"else", "echo">> \o Q(self.slack_channel_id) \o <<";", "fi">>

\* Union[List[str], str] = None
PyNone == [kind |-> "none"]
PyList(items) == [kind |-> "list", items |-> items]
PyStr(v) == [kind |-> "str", val |-> v]

\* ",".join(items)
RECURSIVE Join(_)
Join(items) ==
    IF items = <<>> THEN <<>>
    ELSE IF Len(items) = 1 THEN items[1]
    ELSE items[1] \o <<",">> \o Join(Tail(items))

DatasetValues ==
    {PyNone}
    \cup {PyList(l) : l \in SeqsUpTo({<<"api-logs">>, <<SQ>>}, MaxLen)}
    \cup {PyStr(v) : v \in SeqsUpTo({"api-logs", SQ}, MaxLen)}

SupportedDatasetsModels == [cls : {"SupportedDatasets"}, datasets : DatasetValues]

DefaultDatasets ==
    <<(<<"api-logs">>), (<<"server-logs">>), (<<"application-logs">>),
      (<<"error-logs">>), (<<"trace-logs">>), (<<"audit-logs">>),
      (<<"security-logs">>), (<<"performance-logs">>)>>

\* the value get_command() leaves in self.datasets: the default list for None,
\* and a list joined into one string
SupportedDatasets_datasets(self) ==
    LET d == IF self.datasets.kind = "none" THEN PyList(DefaultDatasets)
             ELSE self.datasets
    IN  IF d.kind = "list" THEN PyStr(Join(d.items)) ELSE d

SupportedDatasets_get_command(self) ==
    <<NL>>
    \o Echo(<<"FETCHING OBSERVE SUPPORTED DATASET IDS">>)
    \o Echo(<<"==========================================">>)
    \o <<"SUPPORTED_DATASETS=", SQ>> \o SupportedDatasets_datasets(self).val
    \o <<SQ, NL>>
    \o Echo(<<"Available Dataset IDs for Observe: $SUPPORTED_DATASETS">>)
    \o Echo(<<"Observe supported dataset IDs retrieved successfully">>)

DatadogMetricsModels == [cls : {"DatadogMetrics"}, metrics : DatasetValues]

DefaultMetrics ==
    <<(<<"system.cpu.usage">>), (<<"system.memory.usage">>),
      (<<"kubernetes.cpu.usage">>), (<<"kubernetes.memory.usage">>),
      (<<"kubernetes.pods.running">>), (<<"kubernetes.pods.failed">>),
      (<<"nginx.requests.rate">>), (<<"nginx.response.time">>),
      (<<"kong.requests.rate">>), (<<"kong.response.time">>),
      (<<"kong.errors.rate">>), (<<"application.response.time">>),
      (<<"application.error.rate">>), (<<"application.throughput">>),
      (<<"jvm.heap.usage">>), (<<"jvm.gc.time">>),
      (<<"trace.servlet.request.errors">>), (<<"trace.servlet.request.hits">>),
      (<<"trace.servlet.request">>)>>

DatadogMetrics_metrics(self) ==
    LET d == IF self.metrics.kind = "none" THEN PyList(DefaultMetrics)
             ELSE self.metrics
    IN  IF d.kind = "list" THEN PyStr(Join(d.items)) ELSE d

DatadogMetrics_get_command(self) ==
    <<NL>>
    \o Echo(<<"FETCHING DATADOG METRICS CONFIGURATION">>)
    \o Echo(<<"=========================================">>)
    \o <<"DD_METRICS=", SQ>> \o DatadogMetrics_metrics(self).val \o <<SQ, NL>>
    \o Echo(<<"Available Datadog Metrics: $DD_METRICS">>)
    \o Echo(<<"Datadog metrics configuration retrieved successfully">>)

\* CopilotContextData (a PromptModel): get_prompt() stores six prompts in the
\* instance and returns None.
CopilotContextDatas ==
    [cls : {"CopilotContextData"}, incident_id : TextValues,
     incident_title : {<<"x">>}, incident_severity : {<<"high">>},
     affected_services : {<<"x">>}, datadog_metrics_config : {<<"x">>},
     observe_supported_ds_ids : {<<"x">>},
     copilot_prompt : {<<>>}, deep_dive_prompt : {<<>>},
     apply_fixes_prompt : {<<>>}, monitoring_prompt : {<<>>},
     na_followup_prompt : {<<>>}, eu_followup_prompt : {<<>>}]

CopilotContextData_get_prompt(self) ==
    [self EXCEPT
        !.copilot_prompt =
            <<"You are an INCIDENT RESPONDER AGENT", "ID=">> \o self.incident_id
            \o <<"Title=", SQ>> \o self.incident_title \o <<SQ, "Severity=">>
            \o self.incident_severity \o <<"Services=">> \o self.affected_services
            \o <<"Datadog metrics (">> \o self.datadog_metrics_config
            \o <<") and Observe datasets (">> \o self.observe_supported_ds_ids
            \o <<")">>,
        !.deep_dive_prompt =
            <<"performing deep analysis", "INCIDENT:">> \o self.incident_id
            \o <<"-">> \o self.incident_title \o self.datadog_metrics_config
            \o self.observe_supported_ds_ids \o self.affected_services,
        !.apply_fixes_prompt =
            <<"ready to apply remediation", "INCIDENT:">> \o self.incident_id
            \o <<"-">> \o self.incident_title \o self.affected_services,
        !.monitoring_prompt =
            <<"monitoring recovery", "INCIDENT:">> \o self.incident_id
            \o <<"-">> \o self.incident_title \o self.affected_services
            \o self.datadog_metrics_config,
        !.na_followup_prompt =
            <<"focusing on NA PRODUCTION", "INCIDENT:">> \o self.incident_id
            \o <<"-">> \o self.incident_title \o self.datadog_metrics_config
            \o self.observe_supported_ds_ids,
        !.eu_followup_prompt =
            <<"focusing on EU PRODUCTION", "INCIDENT:">> \o self.incident_id
            \o <<"-">> \o self.incident_title \o self.datadog_metrics_config
            \o self.observe_supported_ds_ids]

DatabaseBackupCommands ==
    [cls : {"DatabaseBackupCommand"},
     database_type : {<<"postgresql">>, <<"mysql">>, <<"mongodb">>},
     database_name : TextValues, backup_location : {<<"/backups">>, <<DQ>>},
     retention_days : {30}, compress : {TRUE}, encrypt : {FALSE}]

\* str.upper() on the database types in use
upper(v) ==
    [i \in 1..Len(v) |->
        CASE v[i] = "postgresql" -> "POSTGRESQL"
          [] v[i] = "mysql" -> "MYSQL"
          [] v[i] = "mongodb" -> "MONGODB"
          [] v[i] = "{{.database_type}}" -> "{{.DATABASE_TYPE}}"
          [] OTHER -> v[i]]

\* the lines every variant starts with, up to the here-document
BackupHead(self, banner, creating) ==
    Echo(banner)
    \o Echo(<<"Database:">> \o self.database_name)
    \o Echo(<<"Location:">> \o self.backup_location)
    \o <<NL, HASH, "Create backup directory if it doesn", SQ, "t exist", NL>>
    \o <<"mkdir", "-p">> \o Q(self.backup_location) \o <<NL, NL>>
    \o <<"TIMESTAMP=$(date +%Y%m%d_%H%M%S)", NL>>
    \o <<"BACKUP_FILE=">>
    \o Q(self.backup_location \o <<"/">> \o self.database_name
         \o <<"_${TIMESTAMP}.sql">>)
    \o <<NL>>
    \o Echo(creating)
    \o <<NL, HASH, "Create a mock backup file", NL>>
    \o <<"cat", HEREDOC, ">">> \o Q(<<"$BACKUP_FILE">>) \o <<NL>>

\* echo "Backup size: $(du -h "$BACKUP_FILE" | cut -f1)"
BackupSize ==
    <<"echo", DQ, "Backup size: $(du -h", DQ, "$BACKUP_FILE", DQ, "| cut -f1)",
      DQ, NL>>

BackupFailed(text) ==
    <<"else", NL>> \o Echo(text) \o <<"exit", "1", NL, "fi">>

DatabaseBackupCommand_get_command(self) ==
    LET days == ToString(self.retention_days)
        cleanup ==
            <<"find">> \o self.backup_location \o <<"-name">>
            \o Q(self.database_name \o <<"_*.sql">>)
            \o <<"-mtime", "+" \o days, "-delete", "2>/dev/null", "||", "true", NL>>
            \o Echo(<<"Cleaned up backups older than", days, "days">>)
    IN  IF self.database_type = <<"postgresql">> THEN
            BackupHead(self, <<"STARTING POSTGRESQL BACKUP">>,
                       <<"Creating demo backup file", "(", "pg_dump simulation", ")", "...">>)
            \o <<"-- PostgreSQL database dump", NL,
                 "SET client_encoding =", SQ, "UTF8", SQ, ";", NL,
                 "CREATE TABLE users", "(", NL, ")", ";", NL,
                 "INSERT INTO users", "(", "username, email", ")", "VALUES", NL,
                 "(", SQ, "demo_user1", SQ, ",", SQ, "user1@example.com", SQ,
                 ")", ",", NL,
                 "(", SQ, "demo_user2", SQ, ",", SQ, "user2@example.com", SQ,
                 ")", ";", NL,
                 "-- End of dump", NL, EOFLINE, NL>>
            \o <<"if", "[", "$?", "-eq", "0", "]", ";", "then", NL>>
            \o Echo(<<"PostgreSQL backup completed: $BACKUP_FILE">>)
            \o BackupSize \o cleanup
            \o BackupFailed(<<"PostgreSQL backup failed">>)
        ELSE IF self.database_type = <<"mysql">> THEN
            BackupHead(self, <<"STARTING MYSQL BACKUP">>,
                       <<"Creating demo backup file", "(", "mysqldump simulation", ")", "...">>)
            \o <<"-- MySQL dump 10.13", NL, "-- Host: localhost    Database:">>
            \o self.database_name
            \o <<NL, "DROP TABLE IF EXISTS users;", NL,
                 "CREATE TABLE users", "(", NL, ")", "ENGINE=InnoDB;", NL,
                 "INSERT INTO users VALUES", NL,
                 "(", "1,", SQ, "demo_user1", SQ, ",", SQ, "user1@example.com", SQ,
                 ",", SQ, "2024-01-01 10:00:00", SQ, ")", ",", NL,
                 "(", "2,", SQ, "demo_user2", SQ, ",", SQ, "user2@example.com", SQ,
                 ",", SQ, "2024-01-01 10:01:00", SQ, ")", ";", NL,
                 "-- Dump completed", NL, EOFLINE, NL>>
            \o <<"if", "[", "$?", "-eq", "0", "]", ";", "then", NL>>
            \o Echo(<<"MySQL backup completed: $BACKUP_FILE">>)
            \o BackupSize \o cleanup
            \o BackupFailed(<<"MySQL backup failed">>)
        ELSE
            BackupHead(self,
                       <<"STARTING">> \o upper(self.database_type) \o <<"BACKUP">>,
                       <<"Creating demo backup file for">> \o self.database_type
                       \o <<"...">>)
            \o <<"-- Database backup for">> \o self.database_name
            \o <<NL, "-- Database type:">> \o self.database_type
            \o <<NL, "-- Generated on: $(date)", NL,
                 "CREATE TABLE demo_table", "(", NL, ")", ";", NL,
                 "INSERT INTO demo_table VALUES", NL,
                 "(", "1,", SQ, "sample_record_1", SQ, ",", SQ,
                 "Sample data for testing", SQ, ", NOW", "(", ")", ")", ",", NL,
                 "(", "2,", SQ, "sample_record_2", SQ, ",", SQ,
                 "Another test record", SQ, ", NOW", "(", ")", ")", ";", NL,
                 "-- End of backup", NL, EOFLINE, NL>>
            \o <<"if", "[", "$?", "-eq", "0", "]", ";", "then", NL>>
            \o Echo(<<"Backup operation completed for">> \o self.database_type
                    \o <<": $BACKUP_FILE">>)
            \o BackupSize
            \o Echo(<<"Retention policy:", days, "days">>)
            \o BackupFailed(<<"Backup failed">>)

-----------------------------------------------------------------------------
(* What /bin/sh makes of a rendered script: quoting, comments,               *)
(* here-documents, and the nesting of if/then/else/fi and case/esac.         *)

Top(stack) == IF stack = <<>> THEN "none" ELSE stack[Len(stack)]
Pop(stack) == SubSeq(stack, 1, Len(stack) - 1)

\* One token of the scan.  mode is plain, dq (inside "..."), sq (inside
\* '...'), comment (after # up to the newline) or heredoc (up to the EOF
\* line); pending says a here-document starts at the next newline; stack holds
\* the compound commands still open; ok turns FALSE at a keyword that closes
\* nothing and at a parenthesis outside quotes (the templates have them only
\* in quoted text, in here-documents and after a case pattern).
Step(st, t) ==
    LET afterNL == IF st.pending THEN "heredoc" ELSE "plain"
        Open(kw) == [st EXCEPT !.stack = Append(st.stack, kw)]
        Turn(from, kw) ==
            IF Top(st.stack) \in from
            THEN [st EXCEPT !.stack = Append(Pop(st.stack), kw)]
            ELSE [st EXCEPT !.ok = FALSE]
        Close(from) ==
            IF Top(st.stack) \in from
            THEN [st EXCEPT !.stack = Pop(st.stack)]
            ELSE [st EXCEPT !.ok = FALSE]
    IN  CASE st.mode = "dq" -> IF t = DQ THEN [st EXCEPT !.mode = "plain"] ELSE st
          [] st.mode = "sq" -> IF t = SQ THEN [st EXCEPT !.mode = "plain"] ELSE st
          [] st.mode = "heredoc" ->
               IF t = EOFLINE THEN [st EXCEPT !.mode = "plain"] ELSE st
          [] st.mode = "comment" ->
               IF t = NL THEN [st EXCEPT !.mode = afterNL, !.pending = FALSE]
               ELSE st
          [] OTHER ->
               CASE t = DQ -> [st EXCEPT !.mode = "dq"]
                 [] t = SQ -> [st EXCEPT !.mode = "sq"]
                 [] t = HASH -> [st EXCEPT !.mode = "comment"]
                 [] t = HEREDOC -> [st EXCEPT !.pending = TRUE]
                 [] t = NL -> [st EXCEPT !.mode = afterNL, !.pending = FALSE]
                 [] t \in {"if", "case"} -> Open(t)
                 [] t = "then" -> Turn({"if"}, "then")
                 [] t = "else" -> Turn({"then"}, "else")
                 [] t = "fi" -> Close({"then", "else"})
                 [] t = "esac" -> Close({"case"})
                 [] t = "(" -> [st EXCEPT !.ok = FALSE]
                 [] t = ")" ->
                      IF Top(st.stack) = "case" THEN st
                      ELSE [st EXCEPT !.ok = FALSE]
                 [] OTHER -> st

\* the scan of script[lo..hi] from state st
RECURSIVE Scan(_, _, _, _)
Scan(script, lo, hi, st) ==
    IF lo > hi THEN st
    ELSE IF lo = hi THEN Step(st, script[lo])
    ELSE LET mid == (lo + hi) \div 2
             left == Scan(script, lo, mid, st)
         IN  IF left.ok THEN Scan(script, mid + 1, hi, left) ELSE left

\* The script parses iff the scan reaches the end outside every quote,
\* here-document and compound command.
WellFormed(script) ==
    LET end == Scan(script, 1, Len(script),
                    [mode |-> "plain", pending |-> FALSE, stack |-> <<>>,
                     ok |-> TRUE])
    IN  /\ end.ok
        /\ end.mode \in {"plain", "comment"}
        /\ ~end.pending
        /\ end.stack = <<>>

\* the word the shell reads for "{value}": the quotes are removed
Unquote(v) == SelectSeq(v, LAMBDA t : t # DQ)
Balanced(v) == Len(SelectSeq(v, LAMBDA t : t = DQ)) % 2 = 0

\* Running the validate-incident script.  When every interpolated value has
\* its quotes balanced the script runs as written, each test seeing the value
\* with the quotes removed; the last command is an echo, so the exit status
\* is 0.  Otherwise the quoting of the template is shifted: the shell rejects
\* the script, or runs some other sequence of commands.
ValidateIncident_run(self) ==
    LET id == Unquote(self.incident_id)
        title == Unquote(self.incident_title)
        severity == Unquote(self.incident_severity)
        passed == /\ id # <<>>
                  /\ title # <<>>
                  /\ severity # <<>>
                  /\ severity \in ValidSeverities
    IN  IF /\ Balanced(self.incident_id)
           /\ Balanced(self.incident_title)
           /\ Balanced(self.incident_severity)
        THEN {[kind |-> "exit", status |-> 0,
               VALIDATION_PASSED |-> IF passed THEN "true" ELSE "false"]}
        ELSE IF WellFormed(ValidateIncident_get_command(self))
        THEN {[kind |-> "other_commands", VALIDATION_PASSED |-> p] :
                 p \in {"true", "false"}}
        ELSE {[kind |-> "syntax_error", status |-> 2]}

-----------------------------------------------------------------------------
(* The command part as a state machine. *)

CommandModels ==
    ValidateIncidents \cup ValidationFailures \cup NormalizeChannelNameCommands
    \cup SupportedDatasetsModels \cup DatadogMetricsModels
    \cup DatabaseBackupCommands

get_command(self) ==
    CASE self.cls = "ValidateIncident" -> ValidateIncident_get_command(self)
      [] self.cls = "ValidationFailure" -> ValidationFailure_get_command(self)
      [] self.cls = "NormalizeChannelNameCommand" ->
            NormalizeChannelNameCommand_get_command(self)
      [] self.cls = "SupportedDatasets" -> SupportedDatasets_get_command(self)
      [] self.cls = "DatadogMetrics" -> DatadogMetrics_get_command(self)
      [] self.cls = "DatabaseBackupCommand" ->
            DatabaseBackupCommand_get_command(self)

\* the instance after get_command(): two models assign to their own field
after_get_command(self) ==
    CASE self.cls = "SupportedDatasets" ->
            [self EXCEPT !.datasets = SupportedDatasets_datasets(self)]
      [] self.cls = "DatadogMetrics" ->
            [self EXCEPT !.metrics = DatadogMetrics_metrics(self)]
      [] OTHER -> self

ConstructCommand ==
    /\ cm = NoModel
    /\ \E self \in CommandModels \cup CopilotContextDatas :
         /\ cm' = self
         /\ constructed' = self
    /\ UNCHANGED <<rendered, outcome>>
    /\ UNCHANGED notCmd

GetCommand ==
    /\ cm \in CommandModels
    /\ rendered = NotCalled
    /\ rendered' = [kind |-> "script", val |-> get_command(cm)]
    /\ cm' = after_get_command(cm)
    /\ UNCHANGED <<constructed, outcome>>
    /\ UNCHANGED notCmd

GetPrompt ==
    /\ cm \in CopilotContextDatas
    /\ rendered = NotCalled
    /\ rendered' = [kind |-> "prompt"]
    /\ cm' = CopilotContextData_get_prompt(cm)
    /\ UNCHANGED <<constructed, outcome>>
    /\ UNCHANGED notCmd

\* the workflow engine runs the validate-incident step's script
RunValidateIncident ==
    /\ cm.cls = "ValidateIncident"
    /\ rendered.kind = "script"
    /\ outcome = NotCalled
    /\ outcome' \in ValidateIncident_run(cm)
    /\ UNCHANGED <<cm, constructed, rendered>>
    /\ UNCHANGED notCmd

NextCmd == ConstructCommand \/ GetCommand \/ GetPrompt \/ RunValidateIncident


-----------------------------------------------------------------------------
(* Claims about the command models. *)

\* C3: whatever values the fields hold, the script get_command() returns is
\* one the shell can parse.
C3_ScriptWellFormed ==
    rendered.kind = "script" => WellFormed(rendered.val)

\* C4: rendering a model leaves the instance's fields as they were constructed.
C4_RenderingLeavesFields ==
    rendered.kind \in {"script", "prompt"} => cm = constructed

\* C10: the validate-incident script ends with VALIDATION_PASSED=true exactly
\* when incident_id, incident_title and incident_severity are non-empty and
\* incident_severity is one of critical, high, medium, low.
C10_ValidationPassedIff ==
    outcome.kind = "exit" =>
        (outcome.VALIDATION_PASSED = "true"
            <=> /\ cm.incident_id # <<>>
                /\ cm.incident_title # <<>>
                /\ cm.incident_severity # <<>>
                /\ cm.incident_severity \in ValidSeverities)

-----------------------------------------------------------------------------
(* workflows/incident_response.py: the steps the workflow declares. *)

Steps ==
    {"validate-incident", "normalize-channel-name", "setup-slack-integration",
     "validation_failure_message", "get-observe-supported-datasets",
     "get-datadog-metrics-config", "prepare-copilot-context",
     "post-incident-alert", "notify-investigation-progress",
     "investigate-na-cluster-health", "investigate-eu-cluster-health",
     "create-incident-report", "create-executive-summary",
     "clean-na-investigation", "clean-eu-investigation",
     "format-slack-reports", "upload-investigation-results"}

\* .depends(...)
depends(s) ==
    CASE s = "validate-incident" -> {}
      [] s = "normalize-channel-name" -> {"validate-incident"}
      [] s = "setup-slack-integration" -> {"normalize-channel-name"}
      [] s = "validation_failure_message" -> {"setup-slack-integration"}
      [] s = "get-observe-supported-datasets" -> {"setup-slack-integration"}
      [] s = "get-datadog-metrics-config" -> {"setup-slack-integration"}
      [] s = "prepare-copilot-context" ->
            {"setup-slack-integration", "get-observe-supported-datasets",
             "get-datadog-metrics-config"}
      [] s = "post-incident-alert" -> {"prepare-copilot-context"}
      [] s = "notify-investigation-progress" -> {"post-incident-alert"}
      [] s \in {"investigate-na-cluster-health", "investigate-eu-cluster-health"} ->
            {"notify-investigation-progress", "get-datadog-metrics-config",
             "get-observe-supported-datasets"}
      [] s = "create-incident-report" ->
            {"clean-na-investigation", "clean-eu-investigation"}
      [] s = "create-executive-summary" -> {"create-incident-report"}
      [] s = "clean-na-investigation" -> {"investigate-na-cluster-health"}
      [] s = "clean-eu-investigation" -> {"investigate-eu-cluster-health"}
      [] s = "format-slack-reports" ->
            {"clean-na-investigation", "clean-eu-investigation"}
      [] s = "upload-investigation-results" ->
            {"create-incident-report", "create-executive-summary",
             "format-slack-reports"}

\* a variant of output() in which the EU investigation declares the NA
\* investigation's output name
output_shared(s) ==
    CASE s = "validate-incident" -> "validation_status"
      [] s = "normalize-channel-name" -> "NORMALIZED_CHANNEL_NAME"
      [] s = "setup-slack-integration" -> "slack_token"
      [] s = "validation_failure_message" -> "validation_failure_message"
      [] s = "get-observe-supported-datasets" -> "observe_supported_ds_ids"
      [] s = "get-datadog-metrics-config" -> "datadog_metrics_config"
      [] s = "prepare-copilot-context" -> "copilot_prompts"
      [] s = "post-incident-alert" -> "initial_alert_message"
      [] s = "notify-investigation-progress" -> "investigation_progress_message"
      [] s = "investigate-na-cluster-health" -> "na_cluster_results"
      [] s = "investigate-eu-cluster-health" -> "na_cluster_results"
      [] s = "create-incident-report" -> "formatted_incident_report"
      [] s = "create-executive-summary" -> "executive_summary"
      [] s = "clean-na-investigation" -> "cleaned_na_results"
      [] s = "clean-eu-investigation" -> "cleaned_eu_results"
      [] s = "format-slack-reports" -> "formatted_summaries"
      [] s = "upload-investigation-results" -> "upload_summary_status"

\* .output(...)
output(s) ==
    CASE s = "validate-incident" -> "validation_status"
      [] s = "normalize-channel-name" -> "NORMALIZED_CHANNEL_NAME"
      [] s = "setup-slack-integration" -> "slack_token"
      [] s = "validation_failure_message" -> "validation_failure_message"
      [] s = "get-observe-supported-datasets" -> "observe_supported_ds_ids"
      [] s = "get-datadog-metrics-config" -> "datadog_metrics_config"
      [] s = "prepare-copilot-context" -> "copilot_prompts"
      [] s = "post-incident-alert" -> "initial_alert_message"
      [] s = "notify-investigation-progress" -> "investigation_progress_message"
      [] s = "investigate-na-cluster-health" -> "na_cluster_results"
      [] s = "investigate-eu-cluster-health" -> "eu_cluster_results"
      [] s = "create-incident-report" -> "formatted_incident_report"
      [] s = "create-executive-summary" -> "executive_summary"
      [] s = "clean-na-investigation" -> "cleaned_na_results"
      [] s = "clean-eu-investigation" -> "cleaned_eu_results"
      [] s = "format-slack-reports" -> "formatted_summaries"
      [] s = "upload-investigation-results" -> "upload_summary_status"

\* the files a step's script or tool definition writes
output_file(s) ==
    CASE s = "post-incident-alert" -> {"/tmp/incident_alert.json"}
      [] s = "notify-investigation-progress" -> {"/tmp/investigation_progress.json"}
      [] s = "upload-investigation-results" -> {"/tmp/upload_results.py"}
      [] OTHER -> {}

AgentSteps ==
    {"investigate-na-cluster-health", "investigate-eu-cluster-health",
     "create-incident-report", "create-executive-summary",
     "clean-na-investigation", "clean-eu-investigation", "format-slack-reports"}

\* .retry(limit=...): 3 for the two investigations, 5 for the other agent
\* steps, no retry elsewhere
retry_limit(s) ==
    CASE s \in {"investigate-na-cluster-health", "investigate-eu-cluster-health"} -> 3
      [] s \in AgentSteps -> 5
      [] OTHER -> 0

\* a variant of continue_on_failure() that keeps the flag on the two
\* investigations only
continue_on_investigations(s) ==
    s \in {"investigate-na-cluster-health", "investigate-eu-cluster-health"}

\* .continue_on(failure=True)
continue_on_failure(s) ==
    s \in AgentSteps \cup {"upload-investigation-results"}

\* the steps that must have finished before s starts
RECURSIVE Ancestors(_)
Ancestors(s) == depends(s) \cup UNION {Ancestors(d) : d \in depends(s)}

\* the dependency relation, closed under transitivity
Precedes == [s \in Steps |-> Ancestors(s)]

\* neither step waits for the other: the engine may run them in parallel
Unordered(a, b) == a # b /\ a \notin Precedes[b] /\ b \notin Precedes[a]

-----------------------------------------------------------------------------
(* The workflow engine of the SDK, as far as the declarations above ask:     *)
(* a step starts when the steps it depends on are done, a failed attempt is  *)
(* retried up to the declared limit, and a step that failed counts as done   *)
(* for its dependents only under continue_on(failure=True).                  *)

IdleWf ==
    /\ status = [s \in Steps |-> "pending"]
    /\ attempts = [s \in Steps |-> 0]

Done(s) ==
    \/ status[s] = "ok"
    \/ status[s] = "failed" /\ continue_on_failure(s)

Blocked(s) ==
    \/ status[s] = "cancelled"
    \/ status[s] = "failed" /\ ~continue_on_failure(s)

StartStep(s) ==
    /\ status[s] = "pending"
    /\ \A d \in depends(s) : Done(d)
    /\ status' = [status EXCEPT ![s] = "running"]
    /\ UNCHANGED attempts
    /\ UNCHANGED notWf

\* an attempt succeeds; the retry count matters no longer
StepSucceeds(s) ==
    /\ status[s] = "running"
    /\ status' = [status EXCEPT ![s] = "ok"]
    /\ attempts' = [attempts EXCEPT ![s] = 0]
    /\ UNCHANGED notWf

\* a failed attempt with retries left: the step is run again
RetryStep(s) ==
    /\ status[s] = "running"
    /\ attempts[s] < retry_limit(s)
    /\ attempts' = [attempts EXCEPT ![s] = @ + 1]
    /\ UNCHANGED status
    /\ UNCHANGED notWf

\* a failed attempt with no retry left
FailStep(s) ==
    /\ status[s] = "running"
    /\ attempts[s] = retry_limit(s)
    /\ status' = [status EXCEPT ![s] = "failed"]
    /\ UNCHANGED attempts
    /\ UNCHANGED notWf

\* a step whose dependency failed without continue_on never runs
CancelStep(s) ==
    /\ status[s] = "pending"
    /\ \E d \in depends(s) : Blocked(d)
    /\ status' = [status EXCEPT ![s] = "cancelled"]
    /\ UNCHANGED attempts
    /\ UNCHANGED notWf

FinishStep(s) == StepSucceeds(s) \/ RetryStep(s) \/ FailStep(s)

NextWf ==
    \E s \in Steps :
        \/ StartStep(s)
        \/ StepSucceeds(s)
        \/ RetryStep(s)
        \/ FailStep(s)
        \/ CancelStep(s)

\* the engine starts every step that is ready, and every attempt ends (by
\* itself or at its timeout)
FairWf ==
    \A s \in Steps : WF_vars(StartStep(s)) /\ WF_vars(FinishStep(s))

-----------------------------------------------------------------------------
(* Claims about the incident-response workflow. *)

Running(s) == status[s] = "running"

\* C5: no two steps that the dependency relation leaves unordered, and no two
\* steps that are running at the same time, declare the same output name or
\* write the same file.
C5_NoSharedOutput ==
    \A a, b \in Steps :
        (a # b /\ (Unordered(a, b) \/ (Running(a) /\ Running(b))))
            => /\ output(a) # output(b)
               /\ output_file(a) \cap output_file(b) = {}

\* the two investigations run at the same time
C5_Witness ==
    /\ Running("investigate-na-cluster-health")
    /\ Running("investigate-eu-cluster-health")
    /\ Unordered("investigate-na-cluster-health", "investigate-eu-cluster-health")

Executed(s) == status[s] \in {"running", "ok", "failed"}

\* C8: once notify-investigation-progress has completed, upload-investigation-
\* results is eventually executed, whichever agent steps fail after their
\* retries.
C8_UploadEventuallyRuns ==
    status["notify-investigation-progress"] = "ok"
        ~> Executed("upload-investigation-results")

\* an agent step has failed after its last retry and the upload has run
C8_Witness ==
    /\ status["create-incident-report"] = "failed"
    /\ attempts["create-incident-report"] = retry_limit("create-incident-report")
    /\ status["investigate-na-cluster-health"] = "failed"
    /\ Executed("upload-investigation-results")

-----------------------------------------------------------------------------
(* input_files/investigation_results.py: the script the upload step runs. *)

\* the args the upload-investigation-results step passes to its tool
StepArgs ==
    {"slack_token", "channel", "incident_id", "incident_title",
     "incident_severity", "affected_services", "executive_summary",
     "formatted_report", "na_results", "eu_results"}

\* the names main() passes to os.getenv, in order; the first alone when the
\* token is empty
TokenName == "slack_token_value"
OtherNames ==
    {"incident_id", "incident_title", "incident_severity", "affected_services",
     "incident_url", "agent_uuid", "deep_dive_prompt", "apply_fixes_prompt",
     "monitoring_prompt", "slack_channel_id", "cluster_results",
     "service_results", "formatted_report", "executive_summary",
     "formatted_summaries"}

NoEnv == [n \in {} |-> ""]

\* environments: as the step supplies them, and as someone running the script
\* by hand may set them
Envs ==
    {[n \in StepArgs |-> IF n = "formatted_report" THEN r ELSE "v"] :
        r \in {"", "v"}}
    \cup
    {[n \in {TokenName} \cup OtherNames |->
        CASE n = TokenName -> t
          [] n = "formatted_report" -> r
          [] n = "cluster_results" -> c
          [] n = "service_results" -> sv
          [] OTHER -> "v"] :
        t \in {"", "xoxb"}, r \in {"", "v"}, c \in {"", "v"}, sv \in {"", "v"}}

\* a variant of os.getenv with a default that is not empty
getenv_with_default(e, name) == IF name \in DOMAIN e THEN e[name] ELSE "default"

\* os.getenv(name, '')
getenv(e, name) == IF name \in DOMAIN e THEN e[name] ELSE ""

\* what requests.post may do: raise, or return a response with a status code
\* and a body that is JSON (with ok and possibly file) or is not
NotJson == [json |-> FALSE]
Json(ok, file) == [json |-> TRUE, ok |-> ok, file |-> file]
Responses ==
    {[kind |-> "exception"]}
    \cup [kind : {"response"}, status_code : {200, 500},
          body : {NotJson, Json(TRUE, Some("F1")), Json(TRUE, None),
                  Json(FALSE, None)}]

\* a variant of upload_file_to_slack() without the try/except
upload_file_to_slack_without_try(response) ==
    IF response.kind = "exception" THEN Raised("RequestException")
    ELSE IF response.status_code = 200
    THEN IF ~response.body.json THEN Raised("JSONDecodeError")
         ELSE IF response.body.ok
         THEN Returned(IF response.body.file.none THEN Some("{}")
                       ELSE response.body.file)
         ELSE Returned(None)
    ELSE Returned(None)

\* upload_file_to_slack(), given what its one requests.post did: the file
\* object of the reply ({} when the reply has none), or None
upload_file_to_slack(response) ==
    IF response.kind = "exception" THEN Returned(None)
    ELSE IF response.status_code = 200
    THEN IF ~response.body.json THEN Returned(None)
         ELSE IF response.body.ok
         THEN Returned(IF response.body.file.none THEN Some("{}")
                       ELSE response.body.file)
         ELSE Returned(None)
    ELSE Returned(None)

\* post_summary_message(), given what its one requests.post did; a body that
\* is not JSON makes response.json() raise inside the try
post_summary_message(response) ==
    IF response.kind = "exception" THEN Returned(FALSE)
    ELSE IF ~response.body.json THEN Returned(FALSE)
    ELSE IF response.status_code = 200 /\ response.body.ok THEN Returned(TRUE)
    ELSE Returned(FALSE)

IdleUp ==
    /\ env = NoEnv
    /\ pc = "idle"
    /\ read = {}
    /\ local = [slack_token |-> "", formatted_report |-> "",
                cluster_results |-> "", service_results |-> "",
                main_report_file |-> None, cluster_file |-> None,
                service_file |-> None]
    /\ last = NotCalled
    /\ calls = 0
    /\ posts = 0
    /\ sent = <<>>

\* python /tmp/upload_results.py
Launch ==
    /\ pc = "idle"
    /\ env' \in Envs
    /\ pc' = "main"
    /\ UNCHANGED <<read, local, last, calls, posts, sent>>
    /\ UNCHANGED notUp

\* main() up to its first upload: the token, then every other input
MainReadsEnv ==
    /\ pc = "main"
    /\ LET slack_token == getenv(env, TokenName)
       IN  IF slack_token = ""
           THEN /\ read' = {TokenName}
                /\ pc' = "token_not_provided"
                /\ UNCHANGED local
           ELSE /\ read' = {TokenName} \cup OtherNames
                /\ local' = [local EXCEPT
                               !.slack_token = slack_token,
                               !.formatted_report = getenv(env, "formatted_report"),
                               !.cluster_results = getenv(env, "cluster_results"),
                               !.service_results = getenv(env, "service_results")]
                /\ pc' = "main_report"
    /\ UNCHANGED <<env, last, calls, posts, sent>>
    /\ UNCHANGED notUp

\* a variant of main() that posts the summary before the service upload
then_summary_early(position) ==
    CASE position = "main_report" -> "cluster_file"
      [] position = "cluster_file" -> "summary"
      [] position = "service_file" -> "summary"

\* the statement of main() that follows an upload
then(position) ==
    CASE position = "main_report" -> "cluster_file"
      [] position = "cluster_file" -> "service_file"
      [] position = "service_file" -> "summary"

\* if content: file = upload_file_to_slack(...)
UploadIf(content, file, next) ==
    IF content = ""
    THEN /\ pc' = next
         /\ UNCHANGED <<local, last, calls, posts, sent>>
    ELSE \E response \in Responses :
           LET r == upload_file_to_slack(response)
           IN  /\ last' = [fn |-> "upload_file_to_slack", response |-> response,
                           result |-> r]
               /\ calls' = calls + 1
               /\ posts' = posts + 1
               /\ sent' = Append(sent, "files.upload")
               /\ IF r.kind = "raised"
                  THEN pc' = "critical_error" /\ UNCHANGED local
                  ELSE pc' = next /\ local' = [local EXCEPT ![file] = r.val]

UploadMainReport ==
    /\ pc = "main_report"
    /\ UploadIf(local.formatted_report, "main_report_file", then("main_report"))
    /\ UNCHANGED <<env, read>>
    /\ UNCHANGED notUp

UploadClusterFile ==
    /\ pc = "cluster_file"
    /\ UploadIf(local.cluster_results, "cluster_file", then("cluster_file"))
    /\ UNCHANGED <<env, read>>
    /\ UNCHANGED notUp

UploadServiceFile ==
    /\ pc = "service_file"
    /\ UploadIf(local.service_results, "service_file", then("service_file"))
    /\ UNCHANGED <<env, read>>
    /\ UNCHANGED notUp

\* success = post_summary_message(...), and the closing print
PostSummary ==
    /\ pc = "summary"
    /\ \E response \in Responses :
         LET r == post_summary_message(response)
         IN  /\ last' = [fn |-> "post_summary_message", response |-> response,
                         result |-> r]
             /\ pc' = IF r.kind = "raised" THEN "critical_error"
                      ELSE IF r.val THEN "all_posted" ELSE "some_failed"
    /\ calls' = calls + 1
    /\ posts' = posts + 1
    /\ sent' = Append(sent, "chat.postMessage")
    /\ UNCHANGED <<env, read, local>>
    /\ UNCHANGED notUp

NextUp ==
    \/ Launch
    \/ MainReadsEnv
    \/ UploadMainReport
    \/ UploadClusterFile
    \/ UploadServiceFile
    \/ PostSummary

-----------------------------------------------------------------------------
(* Claims about the uploader script. *)

Called == last # NotCalled

\* the request failed: it raised, or the status is not 200, or the reply
\* says ok=false
Failure(response) ==
    \/ response.kind = "exception"
    \/ response.status_code # 200
    \/ response.body.json /\ ~response.body.ok

\* C6: each call of upload_file_to_slack and post_summary_message sends one
\* HTTP request and never raises; when the request failed the call returns
\* None (upload) or False (summary).
C6_FailureReported ==
    /\ posts = calls
    /\ Called =>
        /\ last.result.kind = "returned"
        /\ Failure(last.response) =>
             last.result.val =
                IF last.fn = "upload_file_to_slack" THEN None ELSE FALSE

\* an upload whose request raised, and a summary answered with ok=false
C6_Witness ==
    \/ /\ Called
       /\ last.fn = "upload_file_to_slack"
       /\ last.response.kind = "exception"
       /\ local.main_report_file = None
       /\ pc = "cluster_file"
    \/ /\ Called
       /\ last.fn = "post_summary_message"
       /\ last.response.kind = "response"
       /\ last.response.status_code = 200
       /\ last.response.body = Json(FALSE, None)
       /\ pc = "some_failed"

\* C7: launched with the environment the step supplies, main() reads only
\* names the step supplies, and reads the token from slack_token.
C7_ReadsSuppliedNames ==
    (DOMAIN env = StepArgs /\ pc \notin {"idle", "main"})
        => /\ read \subseteq StepArgs
           /\ "slack_token" \in read
           /\ local.slack_token = env["slack_token"]

Count(q, x) == Cardinality({i \in DOMAIN q : q[i] = x})

\* the uploads main() makes: one for each non-empty content
Contents ==
    {c \in {"formatted_report", "cluster_results", "service_results"} :
        local[c] # ""}

\* C21: in every run of main() that has a Slack token, chat.postMessage is
\* called exactly once, and only after every file upload of the run has been
\* attempted, whether the uploads succeeded or failed.
C21_SummaryOnceAfterUploads ==
    /\ Count(sent, "chat.postMessage") <= 1
    /\ local.slack_token # "" => pc # "critical_error"
    /\ pc \in {"all_posted", "some_failed"} => Count(sent, "chat.postMessage") = 1
    /\ Count(sent, "chat.postMessage") = 1 =>
         /\ sent[Len(sent)] = "chat.postMessage"
         /\ Count(sent, "files.upload") = Cardinality(Contents)

\* three uploads, the second of them failed, then the summary
C21_Witness ==
    /\ sent = <<"files.upload", "files.upload", "files.upload", "chat.postMessage">>
    /\ local.main_report_file # None
    /\ local.cluster_file = None
    /\ pc \in {"all_posted", "some_failed"}

\* C22: if the environment variable slack_token_value is unset or empty,
\* main() returns without making any HTTP request.
C22_NoTokenNoRequest ==
    (pc # "idle" /\ (TokenName \notin DOMAIN env \/ env[TokenName] = "")) =>
        /\ posts = 0
        /\ sent = <<>>
        /\ pc \in {"main", "token_not_provided"}

\* main() has returned for want of a token: the variable unset, or empty
C22_Witness ==
    /\ pc = "token_not_provided"
    /\ TokenName \notin DOMAIN env
    /\ posts = 0

-----------------------------------------------------------------------------
(* A run of the incident-response workflow: what the scripts of its shell    *)
(* steps do.  Each step's script runs in a shell of its own, whose variables *)
(* are the workflow's parameters and env entries and the outputs of the      *)
(* steps before it.                                                          *)

\* the steps up to the progress notification
RunSteps ==
    {"validate-incident", "normalize-channel-name", "setup-slack-integration",
     "validation_failure_message", "get-observe-supported-datasets",
     "get-datadog-metrics-config", "prepare-copilot-context",
     "post-incident-alert", "notify-investigation-progress"}

\* .params(...)
WorkflowParams ==
    {"incident_id", "incident_title", "incident_severity", "incident_priority",
     "incident_body", "incident_url", "incident_source", "incident_owner",
     "slack_channel_id", "notification_channels", "escalation_channel",
     "investigation_timeout", "max_retries", "investigation_agent",
     "customer_impact", "affected_services", "dd_environment",
     "k8s_environment", "agent_uuid", "normalize_channel_name"}

\* .env(...)
WorkflowEnv ==
    {"KUBIYA_API_KEY", "KUBIYA_USER_EMAIL", "INCIDENT_SEVERITY",
     "INCIDENT_PRIORITY"}

NoParams == [n \in {} |-> <<>>]

\* the values a run may be submitted with: the four validated parameters
\* empty or not, a title that is a double quote, severity valid or not
ParamValues ==
    {[n \in WorkflowParams |->
        CASE n = "incident_id" -> id
          [] n = "incident_title" -> title
          [] n = "incident_severity" -> severity
          [] n = "affected_services" -> services
          [] OTHER -> <<"v">>] :
        id \in {<<>>, <<"549">>}, title \in {<<>>, <<"t">>, <<DQ>>},
        severity \in {<<>>, <<"high">>, <<"UNKNOWN">>},
        services \in {<<>>, <<"parcel-service">>}}

\* ${name} as the templates of the workflow write it
Placeholders ==
    ("${incident_id}" :> "incident_id")
    @@ ("${incident_title}" :> "incident_title")
    @@ ("${incident_severity}" :> "incident_severity")
    @@ ("${affected_services}" :> "affected_services")
    @@ ("${incident_priority}" :> "incident_priority")
    @@ ("${incident_owner}" :> "incident_owner")
    @@ ("${incident_source}" :> "incident_source")
    @@ ("${customer_impact}" :> "customer_impact")
    @@ ("${MISSING_PARAMS}" :> "MISSING_PARAMS")
    @@ ("$VALIDATION_PASSED" :> "VALIDATION_PASSED")
    @@ ("${NORMALIZED_CHANNEL_NAME}" :> "NORMALIZED_CHANNEL_NAME")
    @@ ("${slack_token.token}" :> "slack_token")

\* the value of a shell variable: empty when it is not set
Lookup(e, name) == IF name \in DOMAIN e THEN e[name] ELSE <<>>

\* parameter expansion of a word
RECURSIVE Expand(_, _)
Expand(v, e) ==
    IF v = <<>> THEN <<>>
    ELSE (IF Head(v) \in DOMAIN Placeholders
          THEN Lookup(e, Placeholders[Head(v)])
          ELSE <<Head(v)>>)
         \o Expand(Tail(v), e)

\* the word the shell reads for "{value}" of a template: the template's
\* quotes removed, the variables expanded
Word(v, e) == Expand(Unquote(v), e)

\* the variables of the shell that runs step s: parameters, and the outputs
\* (captured stdout) of the steps before it
StepEnv(s) ==
    [n \in {output(d) : d \in Precedes[s]} |-> <<"stdout of the step">>]
    @@ params

\* ValidateIncident(incident_id="${incident_id}", ...) of the validate-incident
\* step
ValidateIncidentOfStep ==
    [cls |-> "ValidateIncident", incident_id |-> <<"${incident_id}">>,
     incident_title |-> <<"${incident_title}">>,
     incident_severity |-> <<"${incident_severity}">>,
     affected_services |-> <<"${affected_services}">>,
     incident_priority |-> <<"${incident_priority}">>,
     incident_owner |-> <<"${incident_owner}">>,
     incident_source |-> <<"${incident_source}">>,
     customer_impact |-> <<"${customer_impact}">>]

\* a variant of validate_incident_script() that ends with exit 1 when the
\* validation failed
validate_incident_script_exit1(self, e) ==
    LET severity == Word(self.incident_severity, e)
        passed == /\ Word(self.incident_id, e) # <<>>
                  /\ Word(self.incident_title, e) # <<>>
                  /\ severity # <<>>
                  /\ severity \in ValidSeverities
    IN  [kind |-> "exit", status |-> IF passed THEN 0 ELSE 1,
         VALIDATION_PASSED |-> IF passed THEN "true" ELSE "false"]

\* the validate script run in a shell with variables e: every -z test and the
\* case see the expanded words; both branches of the closing if end with an
\* echo, so the script exits with status 0
validate_incident_script(self, e) ==
    LET severity == Word(self.incident_severity, e)
        passed == /\ Word(self.incident_id, e) # <<>>
                  /\ Word(self.incident_title, e) # <<>>
                  /\ severity # <<>>
                  /\ severity \in ValidSeverities
    IN  [kind |-> "exit", status |-> 0,
         VALIDATION_PASSED |-> IF passed THEN "true" ELSE "false"]

\* ValidationFailure(missing_params="${MISSING_PARAMS}") of the
\* validation_failure_message step
ValidationFailureOfStep ==
    [cls |-> "ValidationFailure", missing_params |-> <<"${MISSING_PARAMS}">>]

\* the validation-failure script: if [ "$VALIDATION_PASSED" != "true" ] it
\* reports the failure and the missing parameters; it ends with an echo
validation_failure_script(self, e) ==
    [kind |-> "exit", status |-> 0,
     reported |-> Word(<<"$VALIDATION_PASSED">>, e) # <<"true">>,
     missing_params |-> Word(self.missing_params, e)]

-----------------------------------------------------------------------------
(* The Slack-posting command models: the script writes the message's JSON to *)
(* output_file and posts it with curl to chat.postMessage.                   *)

SlackPostingClasses ==
    {"PostIncidentAlert", "InvestigationProgress", "SystemMaintenanceMessage",
     "AlertResolutionMessage", "DeploymentStatusMessage",
     "CapacityWarningMessage", "SecurityIncidentMessage"}

\* instances: the token empty or not, the fields literal or placeholders
SlackPostingModels ==
    [cls : SlackPostingClasses,
     channel : {<<"C1">>, <<"${NORMALIZED_CHANNEL_NAME}">>},
     affected_services : {<<>>, <<"parcel-service">>, <<"${affected_services}">>},
     slack_token : {<<>>, <<"xoxb">>}]

\* a JSON string, and the text of the message object as
\* model_dump_json(exclude_none=True) writes it: every key and every string
\* value between double quotes
JsonString(v) == <<DQ>> \o v \o <<DQ>>

msg_json(self) ==
    <<"{">> \o JsonString(<<"channel">>) \o <<":">> \o JsonString(self.channel)
    \o <<",">> \o JsonString(<<"text">>) \o <<":">>
    \o JsonString(<<"services ">> \o self.affected_services) \o <<"}">>

\* whether a text is a JSON object of string members
RECURSIVE JsonScan(_, _)
JsonScan(t, st) ==
    IF t = <<>> THEN st
    ELSE LET h == Head(t)
             next ==
               CASE st = "start" -> IF h = "{" THEN "key" ELSE "bad"
                 [] st = "key" -> IF h = DQ THEN "in_key" ELSE "bad"
                 [] st = "in_key" -> IF h = DQ THEN "colon" ELSE "in_key"
                 [] st = "colon" -> IF h = ":" THEN "value" ELSE "bad"
                 [] st = "value" -> IF h = DQ THEN "in_value" ELSE "bad"
                 [] st = "in_value" -> IF h = DQ THEN "after" ELSE "in_value"
                 [] st = "after" -> IF h = "," THEN "key"
                                    ELSE IF h = "}" THEN "end" ELSE "bad"
                 [] OTHER -> "bad"
         IN  JsonScan(Tail(t), next)

IsJson(t) == JsonScan(t, "start") = "end"

\* echo "{msg_json}" > {output_file}: the JSON's own double quotes open and
\* close the shell's quoting, so the shell removes every one of them, and
\* expands the variables
echo_double_quoted(text, e) == Expand(Unquote(text), e)

\* echo '{msg_json}' > {output_file}: the text as it is
echo_single_quoted(text, e) == text

NoRequest == [sent |-> FALSE]
Request(authorization, body) ==
    [sent |-> TRUE, authorization |-> authorization, body |-> body]

\* PostIncidentAlert: the lines of the curl command are not joined by
\* backslashes, so inside $( ) curl runs with -s -X POST and the URL alone and
\* the -H and -d lines run as commands of their own; the token is not tested;
\* $? is read after an echo, so the else branch with exit 1 is never taken
PostIncidentAlert_script(self, e, curl_ok) ==
    [kind |-> "exit", status |-> 0,
     file |-> echo_double_quoted(msg_json(self), e),
     request |-> Request(<<>>, <<>>), curl_ok |-> curl_ok,
     posted |-> TRUE, failed |-> FALSE, prepared |-> FALSE]

\* InvestigationProgress: the same curl lines, its status is never read
InvestigationProgress_script(self, e, curl_ok) ==
    [kind |-> "exit", status |-> 0,
     file |-> echo_double_quoted(msg_json(self), e),
     request |-> Request(<<>>, <<>>), curl_ok |-> curl_ok,
     posted |-> TRUE, failed |-> FALSE, prepared |-> FALSE]

\* SystemMaintenanceMessage and the four models written like it: the request
\* is made only if [ -n "{slack_token}" ]; $? is read after
\* echo "Slack API response: $RESPONSE", so it is 0 whatever curl did
SystemMaintenanceMessage_script(self, e, curl_ok) ==
    LET file == echo_single_quoted(msg_json(self), e)
    IN  IF Word(self.slack_token, e) # <<>>
        THEN [kind |-> "exit", status |-> 0, file |-> file,
              request |-> Request(Word(self.slack_token, e), file),
              curl_ok |-> curl_ok,
              posted |-> TRUE, failed |-> FALSE, prepared |-> FALSE]
        ELSE [kind |-> "exit", status |-> 0, file |-> file,
              request |-> NoRequest, curl_ok |-> curl_ok,
              posted |-> FALSE, failed |-> FALSE, prepared |-> TRUE]

slack_script(self, e, curl_ok) ==
    CASE self.cls = "PostIncidentAlert" -> PostIncidentAlert_script(self, e, curl_ok)
      [] self.cls = "InvestigationProgress" ->
            InvestigationProgress_script(self, e, curl_ok)
      [] OTHER -> SystemMaintenanceMessage_script(self, e, curl_ok)

\* the variables of a shell the script is run in by hand
ShellEnv ==
    ("NORMALIZED_CHANNEL_NAME" :> <<"C1">>)
    @@ ("affected_services" :> <<"parcel-service">>)

IdleSlack ==
    /\ sm = NoModel
    /\ sh = NotCalled

ConstructSlackModel ==
    /\ sm = NoModel
    /\ sm' \in SlackPostingModels
    /\ UNCHANGED sh
    /\ UNCHANGED notSlack

\* the script runs; curl, if it runs, succeeds or fails
RunSlackScript ==
    /\ sm # NoModel
    /\ sh = NotCalled
    /\ \E curl_ok \in BOOLEAN : sh' = slack_script(sm, ShellEnv, curl_ok)
    /\ UNCHANGED sm
    /\ UNCHANGED notSlack

NextSlack ==
    \/ ConstructSlackModel
    \/ RunSlackScript

\* C18: in every Slack-posting script, when the curl request to
\* chat.postMessage fails, the script prints its failure message and exits
\* with status 1.
C18_CurlFailureExitsOne ==
    (sh.kind = "exit" /\ sh.request.sent /\ ~sh.curl_ok) =>
        (sh.failed /\ sh.status = 1)

\* C19: no Slack-posting script sends a request when slack_token is empty:
\* it only writes the JSON to output_file and ends successfully.
C19_NoRequestWithoutToken ==
    (sh.kind = "exit" /\ sm.slack_token = <<>>) =>
        (~sh.request.sent /\ sh.status = 0)

\* C20: the file that PostIncidentAlert and InvestigationProgress write and
\* pass to curl holds exactly the message's JSON text with the placeholders
\* expanded, so the body of the request is valid JSON.
C20_FileIsTheJson ==
    (sh.kind = "exit" /\ sm.cls \in {"PostIncidentAlert", "InvestigationProgress"}) =>
        /\ sh.file = Expand(msg_json(sm), ShellEnv)
        /\ IsJson(sh.file)
        /\ sh.request.sent => sh.request.body = sh.file

IdleRun ==
    /\ params = NoParams
    /\ run = [s \in RunSteps |-> NotCalled]

SubmitRun ==
    /\ params = NoParams
    /\ params' \in ParamValues
    /\ UNCHANGED run
    /\ UNCHANGED notRun

\* the engine runs a step once the steps it depends on have succeeded
Ready(s) ==
    /\ params # NoParams
    /\ run[s] = NotCalled
    /\ \A d \in depends(s) : run[d].kind = "exit" /\ run[d].status = 0

ValidateIncidentStep ==
    /\ Ready("validate-incident")
    /\ run' = [run EXCEPT !["validate-incident"] =
                 validate_incident_script(ValidateIncidentOfStep,
                                          StepEnv("validate-incident"))]
    /\ UNCHANGED params
    /\ UNCHANGED notRun

ValidationFailureStep ==
    /\ Ready("validation_failure_message")
    /\ run' = [run EXCEPT !["validation_failure_message"] =
                 validation_failure_script(ValidationFailureOfStep,
                                           StepEnv("validation_failure_message"))]
    /\ UNCHANGED params
    /\ UNCHANGED notRun

\* PostIncidentAlert(...) of the post-incident-alert step
PostIncidentAlertOfStep ==
    [cls |-> "PostIncidentAlert", channel |-> <<"${NORMALIZED_CHANNEL_NAME}">>,
     affected_services |-> <<"${affected_services}">>,
     slack_token |-> <<"${slack_token.token}">>]

\* InvestigationProgress(...) of the notify-investigation-progress step
InvestigationProgressOfStep ==
    [cls |-> "InvestigationProgress", channel |-> <<"${NORMALIZED_CHANNEL_NAME}">>,
     affected_services |-> <<"${affected_services}">>,
     slack_token |-> <<"${slack_token.token}">>]

\* the step has no precondition; its script runs whenever the step does
PostIncidentAlertStep ==
    /\ Ready("post-incident-alert")
    /\ \E curl_ok \in BOOLEAN :
         run' = [run EXCEPT !["post-incident-alert"] =
                   slack_script(PostIncidentAlertOfStep,
                                StepEnv("post-incident-alert"), curl_ok)]
    /\ UNCHANGED params
    /\ UNCHANGED notRun

NotifyProgressStep ==
    /\ Ready("notify-investigation-progress")
    /\ \E curl_ok \in BOOLEAN :
         run' = [run EXCEPT !["notify-investigation-progress"] =
                   slack_script(InvestigationProgressOfStep,
                                StepEnv("notify-investigation-progress"), curl_ok)]
    /\ UNCHANGED params
    /\ UNCHANGED notRun

\* the steps whose scripts are not followed here end with some status
PlainSteps ==
    {"normalize-channel-name", "setup-slack-integration",
     "get-observe-supported-datasets", "get-datadog-metrics-config",
     "prepare-copilot-context"}

PlainStep ==
    \E s \in PlainSteps, st \in {0, 1} :
        /\ Ready(s)
        /\ run' = [run EXCEPT ![s] = [kind |-> "exit", status |-> st]]
        /\ UNCHANGED params
        /\ UNCHANGED notRun

NextRun ==
    \/ SubmitRun
    \/ ValidateIncidentStep
    \/ ValidationFailureStep
    \/ PostIncidentAlertStep
    \/ NotifyProgressStep
    \/ PlainStep

-----------------------------------------------------------------------------
(* Claims about a run of the workflow. *)

Ended(s) == run[s].kind = "exit"

C12_ReportsIffFailed ==
    Ended("validation_failure_message") =>
        (run["validation_failure_message"].reported
            <=> run["validate-incident"].VALIDATION_PASSED = "false")

\* C13: the post-incident-alert step sends the incident alert to Slack only
\* when affected_services is provided (non-empty).
C13_AlertOnlyWithServices ==
    (Ended("post-incident-alert") /\ run["post-incident-alert"].request.sent) =>
        params["affected_services"] # <<>>

-----------------------------------------------------------------------------
(* The declarations of every workflow: workflows/workflows.py and the        *)
(* incident-response workflow.  A run starts a step once every name it       *)
(* depends on is a finished step.                                            *)

WorkflowsPy ==
    {"url_validation_workflow", "text_processing_workflow",
     "system_monitoring_workflow", "security_toolkit_workflow",
     "data_conversion_workflow", "network_security_workflow",
     "utility_workflow", "utility_toolkit_workflow",
     "database_backup_workflow", "kubernetes_health_check_workflow",
     "security_scan_workflow", "documentation_generation_workflow",
     "performance_testing_workflow", "log_analysis_workflow",
     "configuration_deployment_workflow", "test_data_generation_workflow",
     "code_review_automation_workflow", "database_migration_workflow",
     "incident_escalation_workflow", "capacity_monitoring_workflow",
     "troubleshooting_automation_workflow", "devops_pipeline_workflow",
     "security_compliance_workflow"}

IncidentWorkflow == "production-incident-workflow"

WorkflowNames == WorkflowsPy \cup {IncidentWorkflow}

\* the steps of a workflow, in the order of their .step(...) calls
DeclaredSteps(w) ==
    CASE w = IncidentWorkflow ->
            <<"validate-incident", "normalize-channel-name",
              "setup-slack-integration", "validation_failure_message",
              "get-observe-supported-datasets", "get-datadog-metrics-config",
              "prepare-copilot-context", "post-incident-alert",
              "notify-investigation-progress",
              "investigate-na-cluster-health",
              "investigate-eu-cluster-health", "create-incident-report",
              "create-executive-summary", "clean-na-investigation",
              "clean-eu-investigation", "format-slack-reports",
              "upload-investigation-results">>
      [] w = "url_validation_workflow" ->
            <<"validate_url", "echo_validation", "check_connectivity",
              "generate_summary">>
      [] w = "text_processing_workflow" ->
            <<"prepare_text", "analyze_text", "count_characters",
              "extract_unique_words", "generate_report">>
      [] w = "system_monitoring_workflow" ->
            <<"get_system_info", "check_disk_space", "check_processes",
              "analyze_logs", "check_log_errors", "create_monitoring_report",
              "cleanup">>
      [] w = "security_toolkit_workflow" ->
            <<"generate_secure_password", "generate_simple_password",
              "hash_secret_sha256", "hash_secret_md5",
              "encode_secret_base64", "decode_secret_base64",
              "generate_security_report">>
      [] w = "data_conversion_workflow" ->
            <<"get_current_timestamp", "convert_hex_to_rgb",
              "convert_rgb_to_hex", "convert_hex_to_hsl",
              "convert_date_to_timestamp", "convert_timestamp_to_date",
              "generate_conversion_report">>
      [] w = "network_security_workflow" ->
            <<"scan_common_ports", "scan_web_ports", "check_ssl_certificate",
              "check_network_connectivity", "get_weather_context",
              "generate_security_audit">>
      [] w = "utility_workflow" ->
            <<"system_diagnostics", "file_operations", "network_utilities",
              "data_processing", "security_checks",
              "generate_utility_report">>
      [] w = "utility_toolkit_workflow" ->
            <<"generate_single_uuid", "generate_multiple_uuids",
              "generate_uuid_v1", "generate_uuid_v5", "create_qr_code_small",
              "create_qr_code_large", "create_qr_for_uuid",
              "generate_utility_report">>
      [] w = "database_backup_workflow" ->
            <<"validate_backup_params", "execute_backup", "verify_backup",
              "cleanup_old_backups", "send_notification",
              "generate_backup_report">>
      [] w = "kubernetes_health_check_workflow" ->
            <<"check_cluster_connection", "assess_nodes", "validate_pods",
              "check_services", "generate_health_report",
              "send_capacity_alerts">>
      [] w = "security_scan_workflow" ->
            <<"prepare_scan_environment", "network_security_scan",
              "filesystem_security_scan", "analyze_scan_results",
              "generate_security_report", "send_security_alerts">>
      [] w = "documentation_generation_workflow" ->
            <<"validate_project_structure", "generate_api_documentation",
              "create_readme_file", "generate_architecture_docs",
              "compile_documentation", "publish_documentation">>
      [] w = "performance_testing_workflow" ->
            <<"setup_test_environment", "baseline_performance_test",
              "load_testing", "stress_testing",
              "analyze_performance_results", "generate_performance_report">>
      [] w = "log_analysis_workflow" ->
            <<"collect_log_files", "rotate_large_logs",
              "analyze_error_patterns", "generate_log_report",
              "send_log_alerts">>
      [] w = "configuration_deployment_workflow" ->
            <<"validate_configuration_params", "generate_nginx_config",
              "generate_k8s_config", "validate_configurations",
              "deploy_configurations", "verify_deployment">>
      [] w = "test_data_generation_workflow" ->
            <<"setup_data_generation", "generate_user_data",
              "generate_order_data", "validate_test_data",
              "export_data_formats", "publish_test_datasets">>
      [] w = "code_review_automation_workflow" ->
            <<"fetch_code_changes", "analyze_python_code",
              "analyze_javascript_code", "security_code_review",
              "generate_review_report", "post_review_feedback">>
      [] w = "database_migration_workflow" ->
            <<"validate_migration_params", "generate_migration_files",
              "backup_current_schema", "execute_migration",
              "validate_migration", "cleanup_migration_artifacts">>
      [] w = "incident_escalation_workflow" ->
            <<"assess_incident_severity", "determine_escalation_need",
              "escalate_to_senior_team", "send_escalation_notifications",
              "update_incident_status", "monitor_escalation_response">>
      [] w = "capacity_monitoring_workflow" ->
            <<"collect_resource_metrics", "analyze_capacity_trends",
              "predict_capacity_needs", "generate_capacity_alerts",
              "recommend_scaling_actions", "schedule_capacity_review">>
      [] w = "troubleshooting_automation_workflow" ->
            <<"identify_problem_symptoms", "gather_diagnostic_data",
              "analyze_root_causes", "execute_diagnostic_steps",
              "implement_solutions", "verify_problem_resolution">>
      [] w = "devops_pipeline_workflow" ->
            <<"validate_environment", "run_performance_tests",
              "generate_test_data", "backup_database",
              "deploy_configuration", "health_check_kubernetes",
              "send_deployment_notification", "generate_deployment_report">>
      [] w = "security_compliance_workflow" ->
            <<"scan_security_vulnerabilities", "validate_security_configs",
              "check_cluster_security", "analyze_security_logs",
              "assess_incident_severity", "generate_security_report",
              "send_security_alert", "compile_compliance_report">>

\* the names a step of workflows.py passes to .depends(...)
WorkflowsPyDepends(w, s) ==
    CASE w = "url_validation_workflow" ->
            (CASE s = "generate_summary" ->
                     {"validate_url", "check_connectivity"}
               [] OTHER -> {})
      [] w = "text_processing_workflow" ->
            (CASE s = "analyze_text" -> {"prepare_text"}
               [] s = "count_characters" -> {"prepare_text"}
               [] s = "extract_unique_words" -> {"prepare_text"}
               [] s = "generate_report" ->
                     {"analyze_text", "count_characters",
                      "extract_unique_words"}
               [] OTHER -> {})
      [] w = "system_monitoring_workflow" ->
            (CASE s = "check_log_errors" -> {"analyze_logs"}
               [] s = "create_monitoring_report" ->
                     {"get_system_info", "check_disk_space",
                      "check_processes", "check_log_errors"}
               [] s = "cleanup" -> {"create_monitoring_report"}
               [] OTHER -> {})
      [] w = "security_toolkit_workflow" ->
            (CASE s = "decode_secret_base64" -> {"encode_secret_base64"}
               [] s = "generate_security_report" ->
                     {"generate_secure_password", "generate_simple_password",
                      "hash_secret_sha256", "hash_secret_md5",
                      "decode_secret_base64"}
               [] OTHER -> {})
      [] w = "data_conversion_workflow" ->
            (CASE s = "generate_conversion_report" ->
                     {"get_current_timestamp", "convert_hex_to_rgb",
                      "convert_rgb_to_hex", "convert_hex_to_hsl",
                      "convert_date_to_timestamp",
                      "convert_timestamp_to_date"}
               [] OTHER -> {})
      [] w = "network_security_workflow" ->
            (CASE s = "generate_security_audit" ->
                     {"scan_common_ports", "scan_web_ports",
                      "check_ssl_certificate", "check_network_connectivity",
                      "get_weather_context"}
               [] OTHER -> {})
      [] w = "utility_workflow" ->
            (CASE s = "file_operations" -> {"system_diagnostics"}
               [] s = "network_utilities" -> {"file_operations"}
               [] s = "data_processing" -> {"network_utilities"}
               [] s = "security_checks" -> {"data_processing"}
               [] s = "generate_utility_report" -> {"security_checks"}
               [] OTHER -> {})
      [] w = "utility_toolkit_workflow" ->
            (CASE s = "create_qr_for_uuid" -> {"generate_single_uuid"}
               [] s = "generate_utility_report" ->
                     {"generate_multiple_uuids", "generate_uuid_v1",
                      "generate_uuid_v5", "create_qr_code_small",
                      "create_qr_code_large", "create_qr_for_uuid"}
               [] OTHER -> {})
      [] w = "database_backup_workflow" ->
            (CASE s = "execute_backup" -> {"validate_backup_params"}
               [] s = "verify_backup" -> {"execute_backup"}
               [] s = "cleanup_old_backups" -> {"verify_backup"}
               [] s = "send_notification" -> {"cleanup_old_backups"}
               [] s = "generate_backup_report" -> {"send_notification"}
               [] OTHER -> {})
      [] w = "kubernetes_health_check_workflow" ->
            (CASE s = "assess_nodes" -> {"check_cluster_connection"}
               [] s = "validate_pods" -> {"assess_nodes"}
               [] s = "check_services" -> {"validate_pods"}
               [] s = "generate_health_report" -> {"check_services"}
               [] s = "send_capacity_alerts" -> {"generate_health_report"}
               [] OTHER -> {})
      [] w = "security_scan_workflow" ->
            (CASE s = "network_security_scan" -> {"prepare_scan_environment"}
               [] s = "filesystem_security_scan" ->
                     {"prepare_scan_environment"}
               [] s = "analyze_scan_results" ->
                     {"network_security_scan", "filesystem_security_scan"}
               [] s = "generate_security_report" -> {"analyze_scan_results"}
               [] s = "send_security_alerts" -> {"generate_security_report"}
               [] OTHER -> {})
      [] w = "documentation_generation_workflow" ->
            (CASE s = "generate_api_documentation" ->
                     {"validate_project_structure"}
               [] s = "create_readme_file" -> {"generate_api_documentation"}
               [] s = "generate_architecture_docs" -> {"create_readme_file"}
               [] s = "compile_documentation" ->
                     {"generate_architecture_docs"}
               [] s = "publish_documentation" -> {"compile_documentation"}
               [] OTHER -> {})
      [] w = "performance_testing_workflow" ->
            (CASE s = "baseline_performance_test" ->
                     {"setup_test_environment"}
               [] s = "load_testing" -> {"baseline_performance_test"}
               [] s = "stress_testing" -> {"load_testing"}
               [] s = "analyze_performance_results" -> {"stress_testing"}
               [] s = "generate_performance_report" ->
                     {"analyze_performance_results"}
               [] OTHER -> {})
      [] w = "log_analysis_workflow" ->
            (CASE s = "rotate_large_logs" -> {"collect_log_files"}
               [] s = "analyze_error_patterns" -> {"rotate_large_logs"}
               [] s = "generate_log_report" -> {"analyze_error_patterns"}
               [] s = "send_log_alerts" -> {"generate_log_report"}
               [] OTHER -> {})
      [] w = "configuration_deployment_workflow" ->
            (CASE s = "generate_nginx_config" ->
                     {"validate_configuration_params"}
               [] s = "generate_k8s_config" ->
                     {"validate_configuration_params"}
               [] s = "validate_configurations" ->
                     {"generate_nginx_config", "generate_k8s_config"}
               [] s = "deploy_configurations" -> {"validate_configurations"}
               [] s = "verify_deployment" -> {"deploy_configurations"}
               [] OTHER -> {})
      [] w = "test_data_generation_workflow" ->
            (CASE s = "generate_user_data" -> {"setup_data_generation"}
               [] s = "generate_order_data" -> {"generate_user_data"}
               [] s = "validate_test_data" -> {"generate_order_data"}
               [] s = "export_data_formats" -> {"validate_test_data"}
               [] s = "publish_test_datasets" -> {"export_data_formats"}
               [] OTHER -> {})
      [] w = "code_review_automation_workflow" ->
            (CASE s = "analyze_python_code" -> {"fetch_code_changes"}
               [] s = "analyze_javascript_code" -> {"fetch_code_changes"}
               [] s = "security_code_review" ->
                     {"analyze_python_code", "analyze_javascript_code"}
               [] s = "generate_review_report" -> {"security_code_review"}
               [] s = "post_review_feedback" -> {"generate_review_report"}
               [] OTHER -> {})
      [] w = "database_migration_workflow" ->
            (CASE s = "generate_migration_files" ->
                     {"validate_migration_params"}
               [] s = "backup_current_schema" -> {"generate_migration_files"}
               [] s = "execute_migration" -> {"backup_current_schema"}
               [] s = "validate_migration" -> {"execute_migration"}
               [] s = "cleanup_migration_artifacts" -> {"validate_migration"}
               [] OTHER -> {})
      [] w = "incident_escalation_workflow" ->
            (CASE s = "determine_escalation_need" ->
                     {"assess_incident_severity"}
               [] s = "escalate_to_senior_team" ->
                     {"determine_escalation_need"}
               [] s = "send_escalation_notifications" ->
                     {"escalate_to_senior_team"}
               [] s = "update_incident_status" ->
                     {"send_escalation_notifications"}
               [] s = "monitor_escalation_response" ->
                     {"update_incident_status"}
               [] OTHER -> {})
      [] w = "capacity_monitoring_workflow" ->
            (CASE s = "analyze_capacity_trends" ->
                     {"collect_resource_metrics"}
               [] s = "predict_capacity_needs" -> {"analyze_capacity_trends"}
               [] s = "generate_capacity_alerts" -> {"predict_capacity_needs"}
               [] s = "recommend_scaling_actions" ->
                     {"generate_capacity_alerts"}
               [] s = "schedule_capacity_review" ->
                     {"recommend_scaling_actions"}
               [] OTHER -> {})
      [] w = "troubleshooting_automation_workflow" ->
            (CASE s = "gather_diagnostic_data" ->
                     {"identify_problem_symptoms"}
               [] s = "analyze_root_causes" -> {"gather_diagnostic_data"}
               [] s = "execute_diagnostic_steps" -> {"analyze_root_causes"}
               [] s = "implement_solutions" -> {"execute_diagnostic_steps"}
               [] s = "verify_problem_resolution" -> {"implement_solutions"}
               [] OTHER -> {})
      [] w = "devops_pipeline_workflow" ->
            (CASE s = "run_performance_tests" -> {"validate_environment"}
               [] s = "generate_test_data" -> {"run_performance_tests"}
               [] s = "backup_database" -> {"generate_test_data"}
               [] s = "deploy_configuration" -> {"backup_database"}
               [] s = "health_check_kubernetes" -> {"deploy_configuration"}
               [] s = "send_deployment_notification" ->
                     {"health_check_kubernetes"}
               [] s = "generate_deployment_report" ->
                     {"send_deployment_notification"}
               [] OTHER -> {})
      [] w = "security_compliance_workflow" ->
            (CASE s = "validate_security_configs" ->
                     {"scan_security_vulnerabilities"}
               [] s = "check_cluster_security" ->
                     {"validate_security_configs"}
               [] s = "analyze_security_logs" -> {"check_cluster_security"}
               [] s = "assess_incident_severity" -> {"analyze_security_logs"}
               [] s = "generate_security_report" ->
                     {"assess_incident_severity"}
               [] s = "send_security_alert" -> {"generate_security_report"}
               [] s = "compile_compliance_report" -> {"send_security_alert"}
               [] OTHER -> {})
      [] OTHER -> {}

\* the incident-response workflow with one dependency name misspelled
DeclaredDepends_misspelled(w, s) ==
    IF w = IncidentWorkflow
    THEN IF s = "create-incident-report"
         THEN {"clean-na-investigation", "clean_eu_investigation"}
         ELSE depends(s)
    ELSE WorkflowsPyDepends(w, s)

\* the incident-response workflow with validate-incident waiting for the
\* upload of the results
DeclaredDepends_cyclic(w, s) ==
    IF w = IncidentWorkflow
    THEN IF s = "validate-incident"
         THEN {"upload-investigation-results"}
         ELSE depends(s)
    ELSE WorkflowsPyDepends(w, s)

\* url_validation_workflow with its first step waiting for its second
DeclaredDepends_backward(w, s) ==
    IF w = "url_validation_workflow" /\ s = "validate_url"
    THEN {"echo_validation"}
    ELSE IF w = IncidentWorkflow THEN depends(s) ELSE WorkflowsPyDepends(w, s)

\* the names a step passes to .depends(...)
DeclaredDepends(w, s) ==
    IF w = IncidentWorkflow THEN depends(s) ELSE WorkflowsPyDepends(w, s)

StepNames(w) == {DeclaredSteps(w)[i] : i \in DOMAIN DeclaredSteps(w)}

\* the steps a step waits for, directly or through other steps
RECURSIVE Reach(_, _, _)
Reach(w, S, n) ==
    IF n = 0 THEN S
    ELSE Reach(w, S \cup UNION {DeclaredDepends(w, s) : s \in S}, n - 1)

TransitiveDepends(w, s) ==
    Reach(w, DeclaredDepends(w, s), Len(DeclaredSteps(w)))

NoWorkflow == "none"

IdleDecl ==
    /\ wname = NoWorkflow
    /\ phase = <<>>

\* the workflow is built and submitted
SubmitWorkflow ==
    /\ wname = NoWorkflow
    /\ \E w \in WorkflowNames :
         /\ wname' = w
         /\ phase' = [s \in StepNames(w) |-> "waiting"]
    /\ UNCHANGED notDecl

Startable(s) ==
    /\ phase[s] = "waiting"
    /\ \A d \in DeclaredDepends(wname, s) :
         d \in DOMAIN phase /\ phase[d] = "done"

StartDeclaredStep ==
    /\ wname # NoWorkflow
    /\ \E s \in DOMAIN phase :
         /\ Startable(s)
         /\ phase' = [phase EXCEPT ![s] = "running"]
    /\ UNCHANGED wname
    /\ UNCHANGED notDecl

FinishDeclaredStep ==
    /\ wname # NoWorkflow
    /\ \E s \in DOMAIN phase :
         /\ phase[s] = "running"
         /\ phase' = [phase EXCEPT ![s] = "done"]
    /\ UNCHANGED wname
    /\ UNCHANGED notDecl

NextDecl ==
    \/ SubmitWorkflow
    \/ StartDeclaredStep
    \/ FinishDeclaredStep

Submitted == wname # NoWorkflow

\* C15: in every workflow, each name passed to depends() names exactly one
\* step declared in the same workflow.
C15_DependsNameOneStep ==
    Submitted =>
        \A s \in StepNames(wname) : \A d \in DeclaredDepends(wname, s) :
            Cardinality({i \in DOMAIN DeclaredSteps(wname) :
                            DeclaredSteps(wname)[i] = d}) = 1

\* a step that depends on two steps has started, in workflows.py and in the
\* incident-response workflow
C15_Witness ==
    /\ wname = IncidentWorkflow
    /\ phase["create-incident-report"] = "running"

\* C16: the dependency relation of every workflow is acyclic, so as long as
\* steps remain, one is running or can start.
C16_Acyclic ==
    Submitted =>
        /\ \A s \in StepNames(wname) : s \notin TransitiveDepends(wname, s)
        /\ \/ \A s \in DOMAIN phase : phase[s] = "done"
           \/ \E s \in DOMAIN phase : phase[s] = "running" \/ Startable(s)

\* every step of the incident-response workflow has finished
C16_Witness ==
    /\ wname = IncidentWorkflow
    /\ \A s \in DOMAIN phase : phase[s] = "done"

\* C17: in every workflow of workflows.py the dependencies force the order
\* of the 'Workflow Steps' header: step k never starts before step k-1 has
\* finished.
C17_HeaderOrderForced ==
    wname \in WorkflowsPy =>
        \A k \in 2..Len(DeclaredSteps(wname)) :
            phase[DeclaredSteps(wname)[k]] # "waiting" =>
                phase[DeclaredSteps(wname)[k - 1]] = "done"

\* the variables a step declaration references, as ${name} or {{.name}}
\* (slack_token.token is the token field of the output slack_token)
references(s) ==
    CASE s = "validate-incident" ->
            {"incident_id", "incident_title", "incident_severity",
             "affected_services", "incident_priority", "incident_owner",
             "incident_source", "customer_impact"}
      [] s = "normalize-channel-name" ->
            {"slack_channel_id", "normalize_channel_name"}
      [] s = "validation_failure_message" ->
            {"MISSING_PARAMS"}
      [] s = "prepare-copilot-context" ->
            {"incident_id", "incident_title", "incident_severity",
             "affected_services", "incident_priority",
             "datadog_metrics_config", "observe_supported_ds_ids"}
      [] s = "post-incident-alert" ->
            {"incident_id", "incident_title", "incident_severity",
             "incident_priority", "affected_services", "incident_body",
             "incident_url", "NORMALIZED_CHANNEL_NAME", "slack_token"}
      [] s = "notify-investigation-progress" ->
            {"incident_id", "investigation_timeout",
             "NORMALIZED_CHANNEL_NAME", "incident_title",
             "incident_severity", "affected_services", "slack_token"}
      [] s = "investigate-na-cluster-health" ->
            {"incident_id", "incident_title"}
      [] s = "investigate-eu-cluster-health" ->
            {"incident_id", "incident_title"}
      [] s = "create-incident-report" ->
            {"incident_id", "incident_title", "incident_severity",
             "affected_services", "cleaned_na_results", "cleaned_eu_results"}
      [] s = "create-executive-summary" ->
            {"incident_id", "incident_title", "incident_severity",
             "affected_services", "formatted_incident_report"}
      [] s = "clean-na-investigation" ->
            {"na_cluster_results"}
      [] s = "clean-eu-investigation" ->
            {"eu_cluster_results"}
      [] s = "format-slack-reports" ->
            {"cleaned_na_results", "cleaned_eu_results"}
      [] s = "upload-investigation-results" ->
            {"slack_token", "NORMALIZED_CHANNEL_NAME", "incident_id",
             "incident_title", "incident_severity", "affected_services",
             "executive_summary", "formatted_incident_report",
             "cleaned_na_results", "cleaned_eu_results"}
      [] OTHER -> {}

\* C14: every variable that a step of the incident-response workflow
\* references is a workflow parameter, a workflow env entry, or the declared
\* output of a step it transitively depends on, so nothing is read before it
\* has been produced.
C14_ReferencesAreProduced ==
    wname = IncidentWorkflow =>
        \A s \in DOMAIN phase :
            phase[s] # "waiting" =>
                \A v \in references(s) :
                    \/ v \in WorkflowParams \cup WorkflowEnv
                    \/ \E d \in TransitiveDepends(wname, s) :
                          output(d) = v /\ phase[d] = "done"

\* the number of a step in the header
Position(w, s) == CHOOSE i \in DOMAIN DeclaredSteps(w) : DeclaredSteps(w)[i] = s

\* C17 as the declarations have it: in every workflow of workflows.py each
\* step depends only on steps with a smaller number in the header, and never
\* starts before the steps it depends on have finished; steps that do not
\* depend on each other may run in either order.
C17_DependenciesFollowHeader ==
    wname \in WorkflowsPy =>
        \A k \in DOMAIN DeclaredSteps(wname) :
            LET s == DeclaredSteps(wname)[k]
            IN  \A d \in DeclaredDepends(wname, s) :
                  /\ d \in StepNames(wname)
                  /\ Position(wname, d) < k
                  /\ phase[s] # "waiting" => phase[d] = "done"

\* step 2 of url_validation_workflow has started, step 1 has not
C17_Witness ==
    /\ wname = "url_validation_workflow"
    /\ phase["echo_validation"] = "running"
    /\ phase["validate_url"] = "waiting"
    /\ phase["generate_summary"] = "waiting"

-----------------------------------------------------------------------------
(* Steps of workflows.py whose script is rendered by a command model while   *)
(* the workflow is built; the engine fills in ${name} and {{.name}} when the *)
(* step runs.                                                                *)

\* DatabaseBackupCommand(database_type="{{.database_type}}", ...) of the
\* execute_backup step
DatabaseBackupOfStep ==
    [cls |-> "DatabaseBackupCommand",
     database_type |-> <<"{{.database_type}}">>,
     database_name |-> <<"{{.database_name}}">>,
     backup_location |-> <<"{{.backup_location}}">>,
     retention_days |-> 30, compress |-> TRUE, encrypt |-> FALSE]

\* ReportGenerationCommand(report_type="url_analysis", ...) of the
\* generate_summary step
ReportGenerationOfStep ==
    [cls |-> "ReportGenerationCommand", report_type |-> "url_analysis",
     title |-> <<"=== URL Analysis Summary ===">>,
     sections |-> <<[name |-> "Target URL", content |-> <<"${target_url}">>],
                    [name |-> "Validation", content |-> <<"${validation_result}">>],
                    [name |-> "Connectivity",
                     content |-> <<"${connectivity_result}">>],
                    [name |-> "Analysis Time", content |-> <<"$(date)">>]>>,
     include_timestamp |-> TRUE]

\* section_content.replace('"', '\\"').replace('`', '\\`').replace('$', '\\$')
Escaped ==
    ("${target_url}" :> "\\${target_url}")
    @@ ("${validation_result}" :> "\\${validation_result}")
    @@ ("${connectivity_result}" :> "\\${connectivity_result}")
    @@ ("$(date)" :> "\\$(date)")
    @@ (DQ :> "\\\"")

cleaned_content(v) ==
    [i \in DOMAIN v |-> IF v[i] \in DOMAIN Escaped THEN Escaped[v[i]] ELSE v[i]]

RECURSIVE report_sections(_)
report_sections(sections) ==
    IF sections = <<>> THEN <<>>
    ELSE <<"=== " \o Head(sections).name \o " ===", NL>>
         \o cleaned_content(Head(sections).content) \o <<NL, NL>>
         \o report_sections(Tail(sections))

\* the text of the report, built in Python before anything runs
report_content(self) ==
    self.title \o <<NL, "=====", NL>>
    \o (IF self.include_timestamp THEN <<"Generated: $(date)", NL, NL>> ELSE <<>>)
    \o report_sections(self.sections)

\* base64: a text over the base64 alphabet, in which no character of the
\* encoded text shows, and which decodes to that text
b64encode(text) == [base64 |-> text]
b64decode(encoded) == encoded.base64

\* a script: its words, and the text its base64 word encodes (if it has one)
BASE64 == "<base64>"
Script(words, encoded) == [words |-> words, encoded |-> encoded]

\* echo '{encoded_content}' | base64 -d
ReportGenerationCommand_get_command(self) ==
    Script(<<HASH, "Generate report using base64", NL,
             "echo", SQ, BASE64, SQ, "|", "base64", "-d">>,
           b64encode(report_content(self)))

\* the names the engine knows how to fill in
Templates ==
    ("{{.database_type}}" :> "database_type")
    @@ ("{{.database_name}}" :> "database_name")
    @@ ("{{.backup_location}}" :> "backup_location")
    @@ ("${target_url}" :> "target_url")
    @@ ("${validation_result}" :> "validation_result")
    @@ ("${connectivity_result}" :> "connectivity_result")

\* the words of a script with the run's values filled in
RECURSIVE FillIn(_, _, _, _)
FillIn(words, lo, hi, vals) ==
    IF lo > hi THEN <<>>
    ELSE IF lo = hi
    THEN IF words[lo] \in DOMAIN Templates
         THEN vals[Templates[words[lo]]]
         ELSE <<words[lo]>>
    ELSE LET mid == (lo + hi) \div 2
         IN  FillIn(words, lo, mid, vals) \o FillIn(words, mid + 1, hi, vals)

\* what the engine hands to the shell
Rendered(script, vals) == FillIn(script.words, 1, Len(script.words), vals)

\* the steps as built
BuiltSteps ==
    {[step |-> "execute_backup",
      script |-> Script(DatabaseBackupCommand_get_command(DatabaseBackupOfStep),
                        b64encode(<<>>))],
     [step |-> "generate_summary",
      script |-> ReportGenerationCommand_get_command(ReportGenerationOfStep)]}

\* the values of a run
RunValues ==
    [database_type : {<<"postgresql">>, <<"mysql">>, <<"mongodb">>},
     database_name : {<<"production_db">>, <<"x">>},
     backup_location : {<<"/tmp/backups">>},
     target_url : {<<"https://example.com">>, <<"ftp://x">>},
     validation_result : {<<"valid">>, <<"invalid">>},
     connectivity_result : {<<"reachable">>, <<"unreachable">>}]

\* which of the three backup scripts a text is, by the dump it writes
BackupVariant(words) ==
    LET has(t) == \E i \in DOMAIN words : words[i] = t
    IN  IF has("-- PostgreSQL database dump") THEN "postgresql"
        ELSE IF has("-- MySQL dump 10.13") THEN "mysql"
        ELSE "generic"

NoStep == [step |-> "none"]
NoValues == [n \in {} |-> <<>>]

IdleBuilt ==
    /\ bstep = NoStep
    /\ bvals = NoValues
    /\ bout = NotCalled

\* the workflow function is called: get_command() runs now
BuildStep ==
    /\ bstep = NoStep
    /\ bstep' \in BuiltSteps
    /\ UNCHANGED <<bvals, bout>>
    /\ UNCHANGED notBuilt

\* a run is submitted; the steps before this one have produced their outputs
SubmitValues ==
    /\ bstep # NoStep
    /\ bvals = NoValues
    /\ bvals' \in RunValues
    /\ UNCHANGED <<bstep, bout>>
    /\ UNCHANGED notBuilt

\* the step runs: the shell executes the script with the values filled in;
\* a script that pipes its base64 word into base64 -d prints the decoded text
RunBuiltStep ==
    /\ bvals # NoValues
    /\ bout = NotCalled
    /\ LET words == Rendered(bstep.script, bvals)
       IN  bout' = [kind |-> "exit", words |-> words,
                    variant |-> BackupVariant(words),
                    stdout |-> IF \E i \in DOMAIN words : words[i] = BASE64
                               THEN b64decode(bstep.script.encoded)
                               ELSE <<>>]
    /\ UNCHANGED <<bstep, bvals>>
    /\ UNCHANGED notBuilt

NextBuilt ==
    \/ BuildStep
    \/ SubmitValues
    \/ RunBuiltStep

Printed(v) == \E i \in DOMAIN bout.stdout : <<bout.stdout[i]>> = v

\* C23: a report produced by ReportGenerationCommand includes dynamic
\* content: when a section's content references an upstream step output such
\* as ${validation_result}, the report printed by the step shows the value
\* that upstream step produced.
C23_ReportShowsValues ==
    (bout.kind = "exit" /\ bstep.step = "generate_summary") =>
        /\ Printed(bvals.validation_result)
        /\ Printed(bvals.connectivity_result)
        /\ Printed(bvals.target_url)

\* C24: in database_backup_workflow the execute_backup step runs the backup
\* variant selected by the run-time value of database_type: the PostgreSQL
\* script when it is postgresql, the MySQL script when it is mysql.
C24_VariantFollowsParameter ==
    (bout.kind = "exit" /\ bstep.step = "execute_backup") =>
        /\ bvals.database_type = <<"postgresql">> => bout.variant = "postgresql"
        /\ bvals.database_type = <<"mysql">> => bout.variant = "mysql"

-----------------------------------------------------------------------------
(* models/models.py: LogAnalysisReport.get_files(), the JSON format. *)

LogAnalysisReports ==
    [cls : {"LogAnalysisReport"},
     log_source : {"application", "nginx", "system", "security"},
     analysis_period : {"last_hour", "last_day", "last_week"},
     include_errors : BOOLEAN, include_performance : BOOLEAN,
     include_security : BOOLEAN,
     output_format : {"html", "markdown", "json"}]

\* a JSON string and a JSON number, as tokens of the text
Str(x) == <<DQ \o x \o DQ>>
Num(x) == <<x>>
Member(key, value) == Str(key) \o <<":">> \o value

\* the lines of the template guarded by "... if self.include_errors else ''"
ErrorsLines ==
    Str("errors") \o <<":", "{">>
    \o Str("patterns") \o <<":", "[">>
    \o <<"{">> \o Member("type", Str("500 Internal Server Error")) \o <<",">>
       \o Member("count", Num("145")) \o <<"}", ",">>
    \o <<"{">> \o Member("type", Str("404 Not Found")) \o <<",">>
       \o Member("count", Num("98")) \o <<"}", ",">>
    \o <<"{">> \o Member("type", Str("Connection timeout")) \o <<",">>
       \o Member("count", Num("44")) \o <<"}">>
    \o <<"]">>
    \o <<"}", ",">>

\* ... if self.include_performance else ''
PerformanceLines ==
    Str("performance") \o <<":", "{">>
    \o Str("response_time_distribution") \o <<":", "{">>
    \o Member("under_1s", Num("85.2")) \o <<",">>
    \o Member("1_to_3s", Num("12.8")) \o <<",">>
    \o Member("3_to_5s", Num("1.7")) \o <<",">>
    \o Member("over_5s", Num("0.3"))
    \o <<"}">>
    \o <<"}", ",">>

\* ... if self.include_security else ''
SecurityLines ==
    Str("security") \o <<":", "{">>
    \o Member("failed_logins", Num("23")) \o <<",">>
    \o Member("suspicious_ips", Num("7")) \o <<",">>
    \o Member("rate_limit_violations", Num("12"))
    \o <<"}">>

\* the JSON template of get_files()
json_content(self) ==
    <<"{">> \o Str("report") \o <<":", "{">>
    \o Str("metadata") \o <<":", "{">>
       \o Member("source", Str(self.log_source)) \o <<",">>
       \o Member("period", Str(self.analysis_period)) \o <<",">>
       \o Member("generated_at", Str("timestamp")) \o <<",">>
       \o Member("format", Str("json"))
    \o <<"}", ",">>
    \o Str("summary") \o <<":", "{">>
       \o Member("total_requests", Num("15847")) \o <<",">>
       \o Member("success_rate", Num("98.2")) \o <<",">>
       \o Member("error_count", Num("287")) \o <<",">>
       \o Member("avg_response_time", Num("1.2"))
    \o <<"}", ",">>
    \o (IF self.include_errors THEN ErrorsLines ELSE <<>>)
    \o (IF self.include_performance THEN PerformanceLines ELSE <<>>)
    \o (IF self.include_security THEN SecurityLines ELSE <<>>)
    \o <<"}", "}">>

\* get_files(): one file; the HTML and Markdown texts are kept as one token
LogAnalysisReport_get_files(self) ==
    <<[destination |-> <<"log_analysis_report_", self.log_source, "_",
                         self.analysis_period, ".", self.output_format>>,
       content |-> CASE self.output_format = "html" -> <<"<!DOCTYPE html>">>
                     [] self.output_format = "markdown" ->
                            <<"# Log Analysis Report">>
                     [] OTHER -> json_content(self)]>>

\* the grammar of JSON over tokens: what may come next, and the open
\* objects and arrays
Punctuation == {"{", "}", "[", "]", ",", ":"}

AfterValue(stack) ==
    [stack |-> stack, ok |-> TRUE,
     expect |-> IF stack = <<>> THEN "end" ELSE "comma_or_close"]

JsonBad(st) == [st EXCEPT !.ok = FALSE]

JsonValue(st, t) ==
    IF t = "{" THEN [st EXCEPT !.stack = <<"object">> \o @, !.expect = "key_or_close"]
    ELSE IF t = "[" THEN [st EXCEPT !.stack = <<"array">> \o @,
                                    !.expect = "value_or_close"]
    ELSE IF t \notin Punctuation THEN AfterValue(st.stack)
    ELSE JsonBad(st)

JsonClose(st, t) ==
    IF st.stack # <<>>
       /\ \/ t = "}" /\ Head(st.stack) = "object"
          \/ t = "]" /\ Head(st.stack) = "array"
    THEN AfterValue(Tail(st.stack))
    ELSE JsonBad(st)

JsonStep(st, t) ==
    IF ~st.ok THEN st
    ELSE CASE st.expect = "value" -> JsonValue(st, t)
           [] st.expect = "value_or_close" ->
                IF t = "]" THEN JsonClose(st, t) ELSE JsonValue(st, t)
           [] st.expect = "key_or_close" ->
                IF t = "}" THEN JsonClose(st, t)
                ELSE IF t \notin Punctuation THEN [st EXCEPT !.expect = "colon"]
                ELSE JsonBad(st)
           [] st.expect = "key" ->
                IF t \notin Punctuation THEN [st EXCEPT !.expect = "colon"]
                ELSE JsonBad(st)
           [] st.expect = "colon" ->
                IF t = ":" THEN [st EXCEPT !.expect = "value"] ELSE JsonBad(st)
           [] st.expect = "comma_or_close" ->
                IF t = ","
                THEN [st EXCEPT !.expect = IF Head(st.stack) = "object"
                                           THEN "key" ELSE "value"]
                ELSE JsonClose(st, t)
           [] OTHER -> JsonBad(st)

RECURSIVE JsonFold(_, _, _, _)
JsonFold(text, lo, hi, st) ==
    IF lo > hi THEN st
    ELSE IF lo = hi THEN JsonStep(st, text[lo])
    ELSE LET mid == (lo + hi) \div 2
             left == JsonFold(text, lo, mid, st)
         IN  IF left.ok THEN JsonFold(text, mid + 1, hi, left) ELSE left

WellFormedJson(text) ==
    LET st == JsonFold(text, 1, Len(text),
                       [stack |-> <<>>, ok |-> TRUE, expect |-> "value"])
    IN  st.ok /\ st.expect = "end"

IdleLar ==
    /\ lar = NoModel
    /\ files = NotCalled

ConstructLogAnalysisReport ==
    /\ lar = NoModel
    /\ lar' \in LogAnalysisReports
    /\ UNCHANGED files
    /\ UNCHANGED notLar

GetFiles ==
    /\ lar # NoModel
    /\ files = NotCalled
    /\ files' = Returned(LogAnalysisReport_get_files(lar))
    /\ UNCHANGED lar
    /\ UNCHANGED notLar

NextLar ==
    \/ ConstructLogAnalysisReport
    \/ GetFiles

\* C25: for all eight combinations of include_errors, include_performance
\* and include_security, the JSON-format content returned by get_files() is
\* well-formed JSON: no trailing comma before a closing brace and every
\* opened object closed.
C25_JsonContentWellFormed ==
    (files.kind = "returned" /\ lar.output_format = "json") =>
        WellFormedJson(files.val[1].content)

-----------------------------------------------------------------------------
(* Specifications: each part runs while the others stay idle. *)

Init == IdleMsg /\ IdleCmd /\ IdleWf /\ IdleUp /\ IdleRun /\ IdleSlack /\ IdleDecl
        /\ IdleBuilt /\ IdleLar

SpecMsg == Init /\ [][NextMsg]_vars

SpecCmd == Init /\ [][NextCmd]_vars

SpecWf == Init /\ [][NextWf]_vars

SpecWfFair == Init /\ [][NextWf]_vars /\ FairWf

SpecUp == Init /\ [][NextUp]_vars

SpecRun == Init /\ [][NextRun]_vars

SpecSlack == Init /\ [][NextSlack]_vars

SpecDecl == Init /\ [][NextDecl]_vars

SpecBuilt == Init /\ [][NextBuilt]_vars

SpecLar == Init /\ [][NextLar]_vars

====
